---- MODULE Spec2Model ----
(***************************************************************************)
(* EPA Victoria air quality integration: the EPAApi fetch / retry / cache  *)
(* path (epaapi.py), the EPAVicUpdateCoordinator fetch cycles              *)
(* (coordinator.py) and the Collector (collector.py).                      *)
(*                                                                         *)
(* Time is whole seconds since the epoch; local midnights are the          *)
(* multiples of day_seconds, and the objects are constructed on day 1.     *)
(***************************************************************************)
EXTENDS Integers, Sequences, FiniteSets, TLC

(***************************************************************************)
(* Bounds of the model.                                                    *)
(***************************************************************************)
\* concurrent invocations (tasks / awaiting callers) the model follows
NProcs == 2
\* the clock value at construction
StartTime == 88199
\* the clock stops advancing here
MaxNow == 88200
\* the collector's clock stops advancing here
CollectorEnd == 88801
\* seconds of each five-minute span the collector's clock is followed for
MaxSeconds == 2
\* five-minute boundaries the schedule is followed for
ScheduleTicks == 8
\* a number random.randrange may return, between the least and the greatest
SomeJitter == 7
\* seconds a slow GET takes to be answered
SlowRequest == 60

Procs == 1..NProcs

(***************************************************************************)
(* Program constants.                                                      *)
(***************************************************************************)
JSON_VERSION == 1
\* tries = 10 in __fetch_data
tries == 10
\* divisions = int(48) in __calculate_quality_updates
divisions == 48
\* timedelta(hours=24) in seconds
day_seconds == 86400
\* minute=range(0, 60, 5), second=0 : the periodic checks, in seconds
check_every == 300
\* timedelta(seconds=299)
window_last == 299
\* status = 999 : all retries have been exhausted
status_exhausted == 999
\* backoff = 15 in __fetch_data
backoff == 15
\* random.randrange(0,15): the exclusive upper limit of the random part
jitter_range == 15
\* async_timeout.timeout(900)
deadline == 900
\* Throttle(datetime.timedelta(minutes=5)), in seconds
throttle_seconds == 300

CONF_SITE_ID == "site_id"

\* the site id of the configuration entry, and the one the API finds
ConfiguredSite == "site-1"
NearestSite == "site-2"

\* The fields of the ConnectionOptions dataclass handed to EPAApi.
ConnectionOptions == {"api_key", "site_id", "host", "file_path", "tz"}

\* (mutant) the signature the coordinator's call assumes
get_quality_update_params_kw == {"do_past", "force", "next_update"}

\* The keyword parameters get_quality_update(self) declares: none.
get_quality_update_params == {}

(***************************************************************************)
(* Values.                                                                 *)
(***************************************************************************)
\* a datetime object and an ISO-8601 string are different Python values
Dt(t) == [type |-> "datetime", t |-> t]
IsoStr(t) == [type |-> "str", t |-> t]
\* dt.fromtimestamp(0, timezone.utc)
EpochZero == Dt(0)

\* an empty slot of a `tasks` dict
NoTask == 0
\* Python None where a time is expected
NoTime == 0 - 1

\* One element of the payload's "parameters" list as __http_data_call reads
\* it: name is its timeSeriesName ("" when the key is absent), shape the
\* Python type of its "readings" value, value its averageValue.
Entry(name, shape, value) == [name |-> name, shape |-> shape, value |-> value]

\* A decoded JSON body.  kind: "none" (no body: the fetch returned None),
\* "null", "list" (a JSON value that is not an object), "noparams" (an
\* object whose "parameters" is absent or not a list), "params".
Body(kind, params) == [kind |-> kind, params |-> params]
None == Body("none", <<>>)

\* The two-series payload in the shape the remote API documents
\* (readings is an array) and in the shape __http_data_call indexes
\* (readings is an object).
ApiPayload == Body("params", <<Entry("1HR_AV", "list", 7), Entry("24HR_AV", "list", 9)>>)
DictPayload == Body("params", <<Entry("1HR_AV", "dict", 7), Entry("24HR_AV", "dict", 9)>>)
OtherPayload == Body("params", <<Entry("8HR_AV", "list", 3)>>)
UnnamedPayload == Body("params", <<Entry("", "dict", 3)>>)

Bodies ==
    { Body("null", <<>>), Body("list", <<>>), Body("noparams", <<>>),
      Body("params", <<>>), ApiPayload, DictPayload, OtherPayload, UnnamedPayload }

\* HTTP statuses the remote end may answer with
Statuses == {200, 429, 404, 500}

VARIABLES
    now,            \* the wall clock
    data,           \* EPAApi._data
    loaded_data,    \* EPAApi._loaded_data
    tasks_fetch,    \* EPAApi.tasks['fetch']: NoTask or the call whose task it holds
    pc,             \* where each invocation is
    kind,           \* "direct" | "manual" | "scheduled"
    result,         \* the invocation's fetch task's result, once it is done
    last_attempt,   \* get_quality_update: last_attempt
    ret,            \* how the invocation ended
    flag_set,       \* the cycle executed self._data_updated = True
    notified,       \* the cycle called update_integration_listeners
    wake,           \* wait_for_fetch: when asyncio.sleep(update_in) ends
    data_updated,   \* coordinator._data_updated
    intervals,      \* coordinator._intervals
    interval_just_passed,
    pending_update, \* coordinator.tasks['pending_update']
    timers,         \* the two recurring checks are armed
    last_check,     \* the boundary the periodic check last ran at
    listener_saw,   \* get_data_updated() as the listeners last saw it
    fpc,            \* __fetch_data followed alone: where the task is
    counter,        \* __fetch_data: counter
    status,         \* __fetch_data: status (0 before the first answer)
    sleeps,         \* back-off sleeps the task has begun
    delay,          \* __fetch_data: delay, the length of the sleep begun last
    slept,          \* seconds the task has spent in back-off sleeps
    elapsed,        \* seconds since the task entered async_timeout.timeout
    answered,       \* the body the remote end sent with its 200
    fresult,        \* what the task returned
    cause,          \* why it returned: "answer", "error" (raised by the GET), "timeout"
    answers,        \* the statuses the remote end has answered this task with, in order
    gets,           \* the GET requests this task has issued
    file,           \* the cache file
    lock,           \* EPAApi._serialise_lock: NoTask or the call that holds it
    spc,            \* __serialise_data: where each call is
    arg,            \* __serialise_data: the `data` argument of each call
    payload,        \* __serialise_data: payload
    sret,           \* __serialise_data: the value returned
    io_failed,      \* an open or a write of the cache file has raised
    cpc,            \* Collector.async_update: "idle" or "requested" (awaiting the GET)
    cret,           \* what the last async_update call did: "ran" or "throttled"
    throttle_last,  \* Throttle: when async_update last ran, NoTime if never
    site_found,     \* Collector.site_found
    site_id,        \* Collector.site_id
    latitude,       \* Collector.latitude (0: not given)
    longitude,      \* Collector.longitude (0: not given)
    located,        \* how the latest get_locations_data ended ("": none yet)
    hass_data,      \* async_setup_entry: where it is, what it raised and what
                    \* it stored in hass.data[DOMAIN]
    cfields,        \* Collector: the per-metric attributes
    observation_data,   \* Collector.observation_data
    c_last_updated, \* Collector.last_updated
    answer          \* what the remote end did with the last GET

apiVars == <<data, loaded_data, tasks_fetch>>
procVars == <<pc, kind, result, last_attempt, ret, flag_set, notified, wake>>
coordVars == <<data_updated, intervals, interval_just_passed, pending_update,
               timers, last_check, listener_saw>>
fetchVars == <<fpc, counter, status, sleeps, delay, slept, elapsed, answered,
               fresult, cause, answers, gets>>
cacheVars == <<file, lock, spc, arg, payload, sret, io_failed>>
collectorVars == <<cpc, cret, throttle_last, site_found, site_id, latitude,
                   longitude, located, hass_data, cfields, observation_data,
                   c_last_updated, answer>>
vars == <<now, apiVars, procVars, coordVars, fetchVars, cacheVars, collectorVars>>

(***************************************************************************)
(* EPAApi.__init__ and EPAVicUpdateCoordinator.__init__                    *)
(***************************************************************************)
InitData ==
    [site |-> {}, last_updated |-> EpochZero, last_attempt |-> EpochZero,
     auto_updated |-> FALSE, version |-> JSON_VERSION]

\* The cache file: what it held before any save ("initial"), emptied by
\* open(filename, 'w') ("truncated"), one complete payload ("payload"), or
\* the bytes of two writes through overlapping handles ("mixed").
FileState(state, text) == [state |-> state, text |-> text]
FileInitial == FileState("initial", InitData)

\* no save is under way
CacheIdle ==
    /\ file = FileInitial
    /\ lock = NoTask
    /\ spc = [p \in Procs |-> "idle"]
    /\ arg = [p \in Procs |-> InitData]
    /\ payload = [p \in Procs |-> InitData]
    /\ sret = [p \in Procs |-> FALSE]
    /\ io_failed = FALSE

\* __fetch_data has not been started
FetchIdle ==
    /\ fpc = "idle"
    /\ counter = 0
    /\ status = 0
    /\ sleeps = 0
    /\ delay = 0
    /\ slept = 0
    /\ elapsed = 0
    /\ answered = None
    /\ fresult = None
    /\ cause = ""
    /\ answers = <<>>
    /\ gets = 0

\* no call of get_quality_update and no coordinator cycle has started
ApiIdle ==
    /\ data = InitData
    /\ tasks_fetch = NoTask
    /\ pc = [p \in Procs |-> "idle"]
    /\ kind = [p \in Procs |-> "none"]
    /\ result = [p \in Procs |-> None]
    /\ last_attempt = [p \in Procs |-> 0]
    /\ ret = [p \in Procs |-> "running"]
    /\ flag_set = [p \in Procs |-> FALSE]
    /\ notified = [p \in Procs |-> FALSE]
    /\ wake = [p \in Procs |-> 0]
    /\ data_updated = FALSE
    /\ intervals = <<>>
    /\ interval_just_passed = NoTime
    /\ pending_update = NoTask
    /\ timers = FALSE
    /\ last_check = NoTime
    /\ listener_saw = "never"

\* Collector.__init__ (collector.py lines 56-85); aqi_pm25_24h is declared
\* at line 67 and not assigned.
Unset == "<unset>"
InitFields ==
    [aqi |-> 0, aqi_24h |-> 0, aqi_pm25 |-> "", aqi_pm25_24h |-> Unset,
     pm25 |-> 0, pm25_24h |-> 0, confidence |-> 0, confidence_24h |-> 0,
     data_source_1h |-> "", total_sample |-> 0, total_sample_24h |-> 0,
     until |-> ""]

\* observation_data: {} (nothing published) or the twelve published values
NullValues ==
    [aqi |-> 0, aqi_24h |-> 0, aqi_pm25 |-> "", aqi_pm25_24h |-> "",
     pm25 |-> 0, pm25_24h |-> 0, confidence |-> 0, confidence_24h |-> 0,
     data_source |-> "", total_samples |-> 0, total_samples_24h |-> 0,
     until |-> ""]
NoObservation == [published |-> FALSE, values |-> NullValues]
SensorKeys == DOMAIN NullValues

\* the body of a response that carried none
NoBody == [kind |-> "none", has_parameters |-> FALSE, parameters |-> <<>>]
NoAnswer == [how |-> "none", status |-> 0, body |-> NoBody]

\* async_setup_entry (__init__.py lines 107-138): its position, the answer
\* kind of its first load, the exception it raised, whether the coordinator
\* was created and whether hass.data[DOMAIN]['has_loaded'] was set.
EntryState(at, load, raised, coordinator, has_loaded) ==
    [pc |-> at, load |-> load, raised |-> raised, coordinator |-> coordinator,
     has_loaded |-> has_loaded]

CollectorIdle ==
    /\ cpc = "idle"
    /\ cret = ""
    /\ throttle_last = NoTime
    /\ cfields = InitFields
    /\ observation_data = NoObservation
    /\ c_last_updated = EpochZero
    /\ answer = NoAnswer
    /\ located = ""
    /\ hass_data = EntryState("none", "", "", FALSE, FALSE)

\* Collector.__init__ (lines 58-59, 63, 76, 83-85): the coordinates are kept,
\* and a site id that is given is taken as found.
CollectorBuilt(epa_site_id, lat, lon) ==
    /\ latitude = lat
    /\ longitude = lon
    /\ site_id = epa_site_id
    /\ site_found = (epa_site_id # "")

Init ==
    /\ now = StartTime
    /\ loaded_data = FALSE
    /\ ApiIdle
    /\ FetchIdle
    /\ CacheIdle
    /\ CollectorIdle
    /\ CollectorBuilt(ConfiguredSite, 1, 1)

(***************************************************************************)
(* EPAApi.__fetch_data, followed alone and step by step: the bounded retry *)
(* loop.  The task touches none of the object's data.                      *)
(***************************************************************************)
\* The task reached a return.
fetch_returns(res, why) ==
    /\ fresult' = res
    /\ cause' = why
    /\ fpc' = "returned"

\* The task starts: lines 426-444, the first GET is issued.
FetchStart ==
    /\ fpc = "idle"
    /\ counter' = 1
    /\ gets' = gets + 1
    /\ fpc' = "get"
    /\ UNCHANGED <<now, apiVars, procVars, coordVars, cacheVars,
                   collectorVars, status, sleeps, delay, slept, elapsed,
                   answered, fresult, cause, answers>>

\* (mutant) every error status of 429 and above is retried
is_try_later_or_server_error(s) == s >= 429

\* Line 448: the status that asks to try again later.
is_try_later(s) == s = 429

\* (mutant) the retry budget is one short
retry_allowed_one_short(c) == c < tries - 1

\* (mutant) the retry budget is compared with <=
retry_allowed_one_more(c) == c <= tries

\* Lines 449-451: a 429 is retried while counter < tries.
retry_allowed(c) == c < tries

\* (mutant) the deadline never expires
expired_never(e) == FALSE

\* Line 426, async_timeout.timeout(900): the deadline has passed e seconds
\* after the task entered the block.
expired(e) == e >= deadline

\* (mutant) the first back-off is only the random part
backoff_delay_from_zero(c, r) == ((c - 1) * backoff) + r

\* (mutant) the back-off grows with the square of the counter
backoff_delay_squared(c, r) == (c * c * backoff) + r

\* Line 453: delay = (counter * backoff) + random.randrange(0,15), with r
\* the number random.randrange returned.
backoff_delay(c, r) == (c * backoff) + r

\* What random.randrange(0,15) returns: the least, the greatest and one
\* number in between.
Jitters == {0, SomeJitter, jitter_range - 1}

\* How long a GET takes to be answered: no time, or SlowRequest seconds.
RequestSeconds == {0, SlowRequest}

\* The answer to session.get() arrives, t seconds after the request:
\* lines 445-457 and, for a status that is not 200, lines 466-468.  r is
\* what random.randrange returns if the task goes to sleep.
HttpRespond(s, r, t) ==
    /\ fpc = "get"
    /\ s \in Statuses
    /\ r \in Jitters
    /\ t \in RequestSeconds
    /\ ~expired(elapsed + t)
    /\ elapsed' = elapsed + t
    /\ answers' = Append(answers, s)
    /\ IF s = 200
          THEN /\ status' = 200
               /\ fpc' = "body"
               /\ UNCHANGED <<fresult, cause, sleeps, delay>>
          ELSE IF is_try_later(s) /\ retry_allowed(counter)
                 THEN /\ status' = 429
                      /\ sleeps' = sleeps + 1
                      /\ delay' = backoff_delay(counter, r)
                      /\ fpc' = "sleep"
                      /\ UNCHANGED <<fresult, cause>>
                 ELSE /\ status' = IF is_try_later(s) THEN status_exhausted ELSE s
                      /\ fetch_returns(None, "answer")
                      /\ UNCHANGED <<sleeps, delay>>
    /\ UNCHANGED <<now, apiVars, procVars, coordVars, cacheVars,
                   collectorVars, counter, slept, answered, gets>>

\* session.get() raises ConnectionRefusedError / ClientConnectionError:
\* caught at lines 482-485, the task returns None.
HttpError ==
    /\ fpc = "get"
    /\ fetch_returns(None, "error")
    /\ UNCHANGED <<now, apiVars, procVars, coordVars, cacheVars,
                   collectorVars, counter, status, sleeps, delay, slept,
                   elapsed, answered, answers, gets>>

\* asyncio.sleep(delay) ends, delay seconds after it began and before the
\* deadline: the loop comes round, counter += 1 and the next GET is issued.
SleepDone ==
    /\ fpc = "sleep"
    /\ ~expired(elapsed + delay)
    /\ elapsed' = elapsed + delay
    /\ slept' = slept + delay
    /\ counter' = counter + 1
    /\ gets' = gets + 1
    /\ fpc' = "get"
    /\ UNCHANGED <<now, apiVars, procVars, coordVars, cacheVars,
                   collectorVars, status, sleeps, delay, answered, fresult,
                   cause, answers>>

\* What __fetch_data returns for the decoded body b (lines 477-479):
\* JSON null decodes to None.
fetch_value(b) == IF b.kind = "null" THEN None ELSE b

\* resp.json(content_type=None) returns the decoded body b (line 461), or
\* raises on a body that is not JSON (bare except, line 488).
BodyRead(b, decodable) ==
    /\ fpc = "body"
    /\ b \in Bodies
    /\ answered' = IF decodable THEN b ELSE Body("undecodable", <<>>)
    /\ fetch_returns(IF decodable THEN fetch_value(b) ELSE None, "answer")
    /\ UNCHANGED <<now, apiVars, procVars, coordVars, cacheVars,
                   collectorVars, counter, status, sleeps, delay, slept,
                   elapsed, answers, gets>>

\* The 900 second deadline passes while the task is suspended, in a sleep
\* that would end at or after it, or in a GET or a body read that is not
\* answered before it: asyncio.TimeoutError, caught at line 486, the task
\* returns None.
FetchTimeout ==
    /\ fpc \in {"get", "sleep", "body"}
    /\ fpc = "sleep" => expired(elapsed + delay)
    /\ elapsed' = deadline
    /\ slept' = IF fpc = "sleep" THEN slept + (deadline - elapsed) ELSE slept
    /\ fetch_returns(None, "timeout")
    /\ UNCHANGED <<now, apiVars, procVars, coordVars, cacheVars,
                   collectorVars, counter, status, sleeps, delay, answered,
                   answers, gets>>

\* The next fetch: a new task, with fresh locals.
FetchAgain ==
    /\ fpc = "returned"
    /\ fpc' = "idle"
    /\ counter' = 0
    /\ status' = 0
    /\ sleeps' = 0
    /\ delay' = 0
    /\ slept' = 0
    /\ elapsed' = 0
    /\ answered' = None
    /\ fresult' = None
    /\ cause' = ""
    /\ answers' = <<>>
    /\ gets' = 0
    /\ UNCHANGED <<now, apiVars, procVars, coordVars, cacheVars, collectorVars>>

NextFetch ==
    \/ FetchStart
    \/ HttpError
    \/ SleepDone
    \/ FetchTimeout
    \/ FetchAgain
    \/ \E s \in Statuses, r \in Jitters, t \in RequestSeconds : HttpRespond(s, r, t)
    \/ \E b \in Bodies, decodable \in BOOLEAN : BodyRead(b, decodable)

SpecFetch == Init /\ [][NextFetch]_vars

\* Every value __fetch_data can return.
FetchOutcomes == {None} \cup {fetch_value(b) : b \in Bodies}

(***************************************************************************)
(* EPAApi.__http_data_call and EPAApi.get_quality_update                   *)
(***************************************************************************)
\* get_day_start_utc(future): local midnight, `future` days from today
get_day_start_utc(n, future) == ((n \div day_seconds) + future) * day_seconds

\* Lines 356-379 run without raising: every element has a timeSeriesName,
\* a 1HR_AV / 24HR_AV element's "readings" can be indexed by a string, and
\* the loop body ran at least once, so that the locals read at lines
\* 372-376 are bound.
entries_readable(params) ==
    /\ Len(params) > 0
    /\ \A i \in 1..Len(params) :
        /\ params[i].name # ""
        /\ params[i].name \in {"1HR_AV", "24HR_AV"} => params[i].shape = "dict"

\* Lines 343-351: resp_dict is a dict whose "parameters" is a list.
is_parameters_list(resp_dict) == resp_dict.kind = "params"

\* Lines 356-379: the locals are reset at the top of every iteration and the
\* append follows the loop, so new_data holds the last element's values.
new_data(params, st_time) ==
    LET last == params[Len(params)]
    IN  <<[until |-> IF last.name = "1HR_AV" THEN "z1Hr" ELSE "",
           averageValue1Hr |-> IF last.name = "1HR_AV" THEN last.value ELSE 0,
           averageValue24Hr |-> IF last.name = "24HR_AV" THEN last.value ELSE 0,
           updated |-> st_time]>>

\* Lines 385-388: the site's stored history, {} when the site has none.
stored_aqi(d, site) ==
    IF \E s \in d.site : s.id = site
      THEN (CHOOSE s \in d.site : s.id = site).aqi
      ELSE <<>>

\* Lines 392-394: the stored history of the last 730 days replaces the
\* site's entry; new_data is not merged into it.
updated_site(d, site, n, nd) ==
    LET pastdays == get_day_start_utc(n, 0 - 730)
        AQIs == SelectSeq(stored_aqi(d, site), LAMBDA aqi : aqi.until >= pastdays)
    IN  {s \in d.site : s.id # site} \cup {[id |-> site, aqi |-> AQIs]}

\* self.options.auto_update (line 303) reads an attribute of the
\* ConnectionOptions object.
has_option(name) == name \in ConnectionOptions

\* What `self.tasks['fetch'].result()` (line 340) finds when a call
\* resumes: a finished task ("done"), one still running ("pending":
\* InvalidStateError) or no entry ("absent": KeyError).
slot_state ==
    IF tasks_fetch = NoTask THEN "absent"
    ELSE IF pc[tasks_fetch] = "fetching" THEN "pending"
    ELSE "done"

\* __http_data_call from line 340 on: TRUE when it returns True.
http_data_call_ok ==
    /\ slot_state = "done"
    /\ is_parameters_list(result[tasks_fetch])
    /\ entries_readable(result[tasks_fetch].params)

\* get_quality_update lines 297-318: the status string it returns.
get_quality_update_status ==
    IF ~http_data_call_ok THEN "Air Quality failed to fetch"
    ELSE IF ~has_option("auto_update") THEN "Exception in get_quality_update()"
    ELSE ""

\* (mutant) lines 301-302 run whether or not the call failed
get_quality_update_data_stamped(p) ==
    [data EXCEPT !.last_updated = Dt(now), !.last_attempt = IsoStr(last_attempt[p])]

\* _data after lines 340-398 and 300-305.
get_quality_update_data(p) ==
    IF ~http_data_call_ok THEN data
    ELSE LET d1 == [data EXCEPT !.site = updated_site(data, CONF_SITE_ID, now,
                                          new_data(result[tasks_fetch].params, now))]
             d2 == [d1 EXCEPT !.last_updated = Dt(now),
                              !.last_attempt = IsoStr(last_attempt[p])]
         IN  IF ~has_option("auto_update") THEN d2
             ELSE [d2 EXCEPT !.auto_updated = TRUE, !.version = JSON_VERSION]

\* get_quality_update lines 290-296 and __http_data_call lines 329-339:
\* the fetch task is created and awaited.
get_quality_update_begin(p) ==
    /\ last_attempt' = [last_attempt EXCEPT ![p] = now]
    /\ tasks_fetch' = p
    /\ pc' = [pc EXCEPT ![p] = "fetching"]

\* The keyword arguments __quality_update passes (coordinator.py line 182).
quality_update_kwargs == {"do_past", "force", "next_update"}

\* Python binds the call's keywords against the declared parameters.
call_accepted(kwargs) == kwargs \subseteq get_quality_update_params

\* A caller awaits epa.get_quality_update() with no arguments.
DirectCall(p) ==
    /\ pc[p] = "idle"
    /\ kind' = [kind EXCEPT ![p] = "direct"]
    /\ get_quality_update_begin(p)
    /\ UNCHANGED <<now, data, loaded_data, result, ret, flag_set, notified,
                   wake, coordVars, fetchVars, cacheVars, collectorVars>>

\* The task running __fetch_data for call p returns `outcome`.
FetchTask(p, outcome) ==
    /\ pc[p] = "fetching"
    /\ outcome \in FetchOutcomes
    /\ result' = [result EXCEPT ![p] = outcome]
    /\ pc' = [pc EXCEPT ![p] = "fetched"]
    /\ UNCHANGED <<now, apiVars, kind, last_attempt, ret, flag_set, notified,
                   wake, coordVars, fetchVars, cacheVars, collectorVars>>

\* coordinator.py lines 183-185 for a cycle whose await returned; `finally`
\* of wait_for_fetch (lines 114-116) for a scheduled one.
cycle_completes(p) ==
    /\ flag_set' = [flag_set EXCEPT ![p] = kind[p] # "direct"]
    /\ notified' = [notified EXCEPT ![p] = kind[p] # "direct"]
    /\ listener_saw' = IF kind[p] # "direct" THEN "True" ELSE listener_saw
    /\ data_updated' = IF kind[p] # "direct" THEN FALSE ELSE data_updated
    /\ pending_update' = IF kind[p] = "scheduled" /\ pending_update # NoTask
                           THEN NoTask ELSE pending_update

\* The fetch task is done and the awaiting call resumes: __http_data_call
\* lines 340-401, get_quality_update lines 297-318, then the caller.  The
\* call's locals end with it.
HttpDataCallResume(p) ==
    /\ pc[p] = "fetched"
    /\ tasks_fetch' = IF slot_state = "done" THEN NoTask ELSE tasks_fetch
    /\ data' = get_quality_update_data(p)
    /\ ret' = [ret EXCEPT ![p] = get_quality_update_status]
    /\ result' = [result EXCEPT ![p] = None]
    /\ last_attempt' = [last_attempt EXCEPT ![p] = 0]
    /\ IF get_quality_update_status = ""
          THEN /\ loaded_data' = TRUE
               /\ pc' = [pc EXCEPT ![p] = "serialise"]
               /\ UNCHANGED <<flag_set, notified, listener_saw, data_updated,
                              pending_update>>
          ELSE /\ pc' = [pc EXCEPT ![p] = "done"]
               /\ cycle_completes(p)
               /\ UNCHANGED loaded_data
    /\ UNCHANGED <<now, kind, wake, intervals, interval_just_passed, timers,
                   last_check, fetchVars, cacheVars, collectorVars>>

(***************************************************************************)
(* EPAVicUpdateCoordinator                                                 *)
(***************************************************************************)
\* (mutant) the step is not multiplied by the index: every entry is sunrise
all_intervals_unspread(sunrise) ==
    [i \in 1..divisions |-> sunrise]

\* get_intervals (lines 140-157) for the window starting at sunrise, with
\* jp the value of self.interval_just_passed on entry.
all_intervals(sunrise) ==
    [i \in 1..divisions |-> sunrise + ((day_seconds \div divisions) * (i - 1))]

just_passed(sunrise, n, jp) ==
    LET passed == {i \in 1..divisions :
                      \A j \in 1..i : all_intervals(sunrise)[j] < n}
    IN  IF passed = {} THEN jp
        ELSE all_intervals(sunrise)[CHOOSE i \in passed : \A j \in passed : j <= i]

get_intervals(sunrise, n) ==
    SelectSeq(all_intervals(sunrise), LAMBDA i : i > n)

\* line 152 dereferences interval_just_passed, which is None until some
\* interval has been found in the past
get_intervals_raises(sunrise, n, jp) ==
    /\ Len(get_intervals(sunrise, n)) < divisions
    /\ just_passed(sunrise, n, jp) = NoTime

\* __auto_update_setup / __calculate_quality_updates (lines 121-171):
\* the new value of _intervals; an exception leaves it as it was.
calculate_quality_updates(n, jp, old) ==
    LET sunrise == get_day_start_utc(n, 0)
        sunrise_tomorrow == sunrise + day_seconds
        jp1 == just_passed(sunrise, n, jp)
    IN  IF \/ get_intervals_raises(sunrise, n, jp)
           \/ get_intervals_raises(sunrise_tomorrow, n, jp1)
          THEN old
          ELSE get_intervals(sunrise, n) \o get_intervals(sunrise_tomorrow, n)

\* __check_quality_fetch lines 95-100: the head of queue q lies in the
\* five-minute window that holds n.
head_in_window(q, n) ==
    /\ Len(q) > 0
    /\ LET from == (n \div check_every) * check_every
       IN  from <= q[1] /\ q[1] <= from + window_last

\* (mutant) the deferred task is created but not recorded in the slot
check_quality_fetch_unrecorded(q, p) ==
    IF head_in_window(q, now) /\ pending_update = NoTask
      THEN /\ pc[p] = "idle"
           /\ pc' = [pc EXCEPT ![p] = "waiting"]
           /\ kind' = [kind EXCEPT ![p] = "scheduled"]
           /\ wake' = [wake EXCEPT ![p] = now + (q[1] - now)]
           /\ pending_update' = pending_update
      ELSE /\ p = CHOOSE x \in Procs : TRUE
           /\ UNCHANGED <<pc, kind, wake, pending_update>>

\* __check_quality_fetch (lines 92-119) on queue q: arms the deferred task
\* p when the head is due and no task is pending.
check_quality_fetch(q, p) ==
    IF head_in_window(q, now) /\ pending_update = NoTask
      THEN /\ pc[p] = "idle"
           /\ pc' = [pc EXCEPT ![p] = "waiting"]
           /\ kind' = [kind EXCEPT ![p] = "scheduled"]
           /\ wake' = [wake EXCEPT ![p] = now + (q[1] - now)]
           /\ pending_update' = p
      ELSE /\ p = CHOOSE x \in Procs : TRUE
           /\ UNCHANGED <<pc, kind, wake, pending_update>>

\* setup (lines 69-83)
Setup(p) ==
    /\ ~timers
    /\ interval_just_passed' = just_passed(get_day_start_utc(now, 0), now,
                                            interval_just_passed)
    /\ intervals' = calculate_quality_updates(now, interval_just_passed, intervals)
    /\ check_quality_fetch(intervals', p)
    /\ timers' = TRUE
    /\ UNCHANGED <<now, apiVars, result, last_attempt, ret, flag_set, notified,
                   data_updated, last_check, listener_saw, fetchVars, cacheVars, collectorVars>>

\* The recurring __check_quality_fetch, fired by
\* async_track_utc_time_change at every fifth minute, second 0.
PeriodicCheck(p) ==
    /\ timers
    /\ now % check_every = 0
    /\ last_check # now
    /\ last_check' = now
    /\ check_quality_fetch(intervals, p)
    /\ UNCHANGED <<now, apiVars, result, last_attempt, ret, flag_set, notified,
                   data_updated, intervals, interval_just_passed, timers,
                   listener_saw, fetchVars, cacheVars, collectorVars>>

\* The recurring update_integration_listeners (lines 85-90).
ListenersTick ==
    /\ timers
    /\ now % check_every = 0
    /\ listener_saw' = IF data_updated THEN "True" ELSE "False"
    /\ listener_saw' # listener_saw
    /\ UNCHANGED <<now, apiVars, procVars, data_updated, intervals,
                   interval_just_passed, pending_update, timers, last_check,
                   fetchVars, cacheVars, collectorVars>>

\* __quality_update (lines 173-185) from its start to its first suspension:
\* the call at line 182 raises TypeError when the keywords do not bind, and
\* the exception leaves the task (wait_for_fetch catches CancelledError
\* only; its `finally` clears the slot).
quality_update(p, scheduled) ==
    IF call_accepted(quality_update_kwargs)
      THEN /\ get_quality_update_begin(p)
           /\ UNCHANGED <<ret, pending_update>>
      ELSE /\ pc' = [pc EXCEPT ![p] = "done"]
           /\ ret' = [ret EXCEPT ![p] = "TypeError"]
           /\ pending_update' = IF scheduled /\ pending_update # NoTask
                                  THEN NoTask ELSE pending_update
           /\ UNCHANGED <<last_attempt, tasks_fetch>>

\* service_event_update (lines 187-189): the task is created.
ServiceEventUpdate(p) ==
    /\ pc[p] = "idle"
    /\ pc' = [pc EXCEPT ![p] = "created"]
    /\ kind' = [kind EXCEPT ![p] = "manual"]
    /\ UNCHANGED <<now, apiVars, result, last_attempt, ret, flag_set,
                   notified, wake, coordVars, fetchVars, cacheVars,
                   collectorVars>>

\* The event loop runs the task service_event_update created.
QualityUpdateRun(p) ==
    /\ pc[p] = "created"
    /\ quality_update(p, FALSE)
    /\ UNCHANGED <<now, data, loaded_data, kind, result, flag_set, notified,
                   wake, data_updated, intervals, interval_just_passed,
                   timers, last_check, listener_saw, fetchVars, cacheVars,
                   collectorVars>>

\* (mutant) the slice starts one entry further on
popped_two(q) == Tail(Tail(q))

\* Line 110: self._intervals = self._intervals[1:]
popped(q) == Tail(q)

\* wait_for_fetch (lines 105-116): asyncio.sleep(update_in) is over; the head
\* is popped and __quality_update runs.
DeferredWake(p) ==
    /\ pc[p] = "waiting"
    /\ now >= wake[p]
    /\ intervals' = popped(intervals)
    /\ quality_update(p, TRUE)
    /\ UNCHANGED <<now, data, loaded_data, kind, result, flag_set, notified,
                   wake, data_updated, interval_just_passed, timers,
                   last_check, listener_saw, fetchVars, cacheVars,
                   collectorVars>>

\* The clock moves on by a second.
Tick ==
    /\ now < MaxNow
    /\ now' = now + 1
    /\ UNCHANGED <<apiVars, procVars, coordVars, fetchVars, cacheVars,
                   collectorVars>>

Next ==
    \/ Tick
    \/ ListenersTick
    \/ \E p \in Procs :
        \/ Setup(p)
        \/ PeriodicCheck(p)
        \/ ServiceEventUpdate(p)
        \/ QualityUpdateRun(p)
        \/ DeferredWake(p)
        \/ DirectCall(p)
        \/ HttpDataCallResume(p)
        \/ \E outcome \in FetchOutcomes : FetchTask(p, outcome)

Spec == Init /\ [][Next]_vars

(***************************************************************************)
(* EPAApi.__serialise_data, called with any record, by concurrent callers  *)
(***************************************************************************)
\* DateTimeEncoder.default (lines 63-69) inside json.dumps: a datetime
\* value becomes its isoformat() string, a string stays a string.
DateTimeEncoder(v) == IF v.type = "datetime" THEN IsoStr(v.t) ELSE v

\* json.dumps(data, ensure_ascii=False, cls=DateTimeEncoder), line 254
dumps(d) ==
    [d EXCEPT !.last_updated = DateTimeEncoder(d.last_updated),
              !.last_attempt = DateTimeEncoder(d.last_attempt)]

\* (mutant) the epoch-zero guard is missing
may_save_unguarded(loaded, d) == loaded

\* Lines 244-253: the two guards that abort the save.
may_save(loaded, d) == loaded /\ d.last_updated # EpochZero

\* (mutant) the lock is taken whoever holds it
lock_free_always == TRUE

\* asyncio.Lock: free when nobody holds it
lock_free == lock = NoTask

\* The records __serialise_data is called with.
SaveRecords ==
    { InitData,
      [InitData EXCEPT !.last_updated = Dt(StartTime), !.last_attempt = IsoStr(StartTime)],
      [InitData EXCEPT !.last_updated = Dt(MaxNow), !.last_attempt = IsoStr(StartTime)] }

\* _loaded_data is either value when __serialise_data is called.
InitCache ==
    /\ now = StartTime
    /\ loaded_data \in BOOLEAN
    /\ ApiIdle
    /\ FetchIdle
    /\ CacheIdle
    /\ CollectorIdle
    /\ CollectorBuilt(ConfiguredSite, 1, 1)

\* (mutant) one try block around conversion and write: the file has been
\* opened for writing when json.dumps raises
dumps_raised_file_emptied(f) == FileState("truncated", InitData)

\* Lines 243-257: the cache file after json.dumps has raised.  The first
\* try block ends before the file is opened, `serialise = False` skips the
\* second.
dumps_raised_file(f) == f

\* __serialise_data(d, filename) from its start to its first suspension:
\* lines 238-261.  converts is FALSE when json.dumps raises (line 254),
\* which is caught at line 255.  The lock is taken at once when it is free
\* and nobody waits for it.
SerialiseCall(p, d, converts) ==
    /\ spc[p] = "idle"
    /\ d \in SaveRecords
    /\ arg' = [arg EXCEPT ![p] = d]
    /\ IF ~may_save(loaded_data, d)
          THEN /\ spc' = [spc EXCEPT ![p] = "done"]
               /\ sret' = [sret EXCEPT ![p] = FALSE]
               /\ UNCHANGED <<payload, lock, file>>
          ELSE IF ~converts
          THEN /\ spc' = [spc EXCEPT ![p] = "done"]
               /\ sret' = [sret EXCEPT ![p] = FALSE]
               /\ file' = dumps_raised_file(file)
               /\ UNCHANGED <<payload, lock>>
          ELSE /\ payload' = [payload EXCEPT ![p] = dumps(d)]
               /\ sret' = sret
               /\ file' = file
               /\ IF lock_free /\ \A q \in Procs : spc[q] # "lock_wait"
                     THEN /\ lock' = p
                          /\ spc' = [spc EXCEPT ![p] = "opening"]
                     ELSE /\ lock' = lock
                          /\ spc' = [spc EXCEPT ![p] = "lock_wait"]
    /\ UNCHANGED <<now, apiVars, procVars, coordVars, fetchVars,
                   collectorVars, io_failed>>

\* `async with self._serialise_lock` (line 260) for a call that had to wait.
LockAcquired(p) ==
    /\ spc[p] = "lock_wait"
    /\ lock_free
    /\ lock' = p
    /\ spc' = [spc EXCEPT ![p] = "opening"]
    /\ UNCHANGED <<now, apiVars, procVars, coordVars, fetchVars,
                   collectorVars, file, arg, payload, sret, io_failed>>

\* aiofiles.open(filename, 'w') (line 261) returns: the file is emptied.
FileOpened(p) ==
    /\ spc[p] = "opening"
    /\ file' = FileState("truncated", InitData)
    /\ spc' = [spc EXCEPT ![p] = "writing"]
    /\ UNCHANGED <<now, apiVars, procVars, coordVars, fetchVars,
                   collectorVars, lock, arg, payload, sret, io_failed>>

\* aiofiles.open raises: the lock is released on the way out, the
\* exception is caught at line 265 and False returned.
OpenFails(p) ==
    /\ spc[p] = "opening"
    /\ lock' = NoTask
    /\ spc' = [spc EXCEPT ![p] = "done"]
    /\ sret' = [sret EXCEPT ![p] = FALSE]
    /\ io_failed' = TRUE
    /\ UNCHANGED <<now, apiVars, procVars, coordVars, fetchVars,
                   collectorVars, file, arg, payload>>

\* f.write(payload) (line 262) returns, the file is closed, the lock
\* released and True returned.  A write through a handle opened before the
\* file was last written leaves the bytes of both writes.
FileWritten(p) ==
    /\ spc[p] = "writing"
    /\ file' = IF file.state = "truncated"
                  THEN FileState("payload", payload[p])
                  ELSE FileState("mixed", payload[p])
    /\ lock' = NoTask
    /\ spc' = [spc EXCEPT ![p] = "done"]
    /\ sret' = [sret EXCEPT ![p] = TRUE]
    /\ UNCHANGED <<now, apiVars, procVars, coordVars, fetchVars,
                   collectorVars, arg, payload, io_failed>>

\* f.write raises: the file stays as the open left it.
WriteFails(p) ==
    /\ spc[p] = "writing"
    /\ lock' = NoTask
    /\ spc' = [spc EXCEPT ![p] = "done"]
    /\ sret' = [sret EXCEPT ![p] = FALSE]
    /\ io_failed' = TRUE
    /\ UNCHANGED <<now, apiVars, procVars, coordVars, fetchVars,
                   collectorVars, file, arg, payload>>

\* The call is over; the caller may save again.
SaveAgain(p) ==
    /\ spc[p] = "done"
    /\ spc' = [spc EXCEPT ![p] = "idle"]
    /\ arg' = [arg EXCEPT ![p] = InitData]
    /\ payload' = [payload EXCEPT ![p] = InitData]
    /\ sret' = [sret EXCEPT ![p] = FALSE]
    /\ UNCHANGED <<now, apiVars, procVars, coordVars, fetchVars,
                   collectorVars, file, lock, io_failed>>

NextCache ==
    \E p \in Procs :
        \/ \E d \in SaveRecords, converts \in BOOLEAN : SerialiseCall(p, d, converts)
        \/ LockAcquired(p)
        \/ FileOpened(p)
        \/ OpenFails(p)
        \/ FileWritten(p)
        \/ WriteFails(p)
        \/ SaveAgain(p)

SpecCache == InitCache /\ [][NextCache]_vars

(***************************************************************************)
(* Collector (collector.py): async_update and extract_observation_data     *)
(***************************************************************************)
\* The keys of one element of a "readings" array.
ReadingKeys == {"confidence", "totalSample", "healthAdvice", "averageValue", "until"}

\* One reading: the keys it has and their values.  Concentrations are in
\* tenths of a microgram per cubic metre.
Reading(has, confidence, totalSample, healthAdvice, averageValue, until) ==
    [has |-> has, confidence |-> confidence, totalSample |-> totalSample,
     healthAdvice |-> healthAdvice, averageValue |-> averageValue, until |-> until]

Series(name, readings) == [name |-> name, readings |-> readings]
Parameter(has_series, series) == [has_series |-> has_series, series |-> series]
JsonObject(has_parameters, parameters) ==
    [kind |-> "object", has_parameters |-> has_parameters, parameters |-> parameters]

Hour(conf, samples, value) ==
    Series("1HR_AV", <<Reading(ReadingKeys, conf, samples, "Good", value, "T1")>>)
Day(conf, samples, value) ==
    Series("24HR_AV", <<Reading(ReadingKeys, conf, samples, "Fair", value, "T1")>>)

\* The bodies the remote end answers with.
GoodBody == JsonObject(TRUE, <<Parameter(TRUE, <<Hour(80, 12, 50), Day(90, 24, 100)>>)>>)
LaterBody == JsonObject(TRUE, <<Parameter(TRUE, <<Hour(70, 11, 400), Day(95, 24, 200)>>)>>)
ZeroHourBody == JsonObject(TRUE, <<Parameter(TRUE, <<Hour(0, 0, 30), Day(90, 24, 100)>>)>>)
HourOnlyBody == JsonObject(TRUE, <<Parameter(TRUE, <<Hour(80, 12, 50)>>)>>)
\* the 24-hour series ahead of the hourly one
ReversedBody == JsonObject(TRUE, <<Parameter(TRUE, <<Day(90, 24, 100), Hour(80, 12, 50)>>)>>)
ReversedZeroHourBody ==
    JsonObject(TRUE, <<Parameter(TRUE, <<Day(85, 24, 160), Hour(0, 0, 30)>>)>>)
NotFoundBody == JsonObject(FALSE, <<>>)
EmptyParametersBody == JsonObject(TRUE, <<>>)
NoSeriesBody == JsonObject(TRUE, <<Parameter(FALSE, <<>>)>>)
EmptyReadingsBody ==
    JsonObject(TRUE, <<Parameter(TRUE, <<Hour(60, 10, 70), Series("24HR_AV", <<>>)>>)>>)
MissingFieldBody ==
    JsonObject(TRUE, <<Parameter(TRUE,
        <<Hour(60, 10, 70),
          Series("24HR_AV", <<Reading(ReadingKeys \ {"averageValue"}, 85, 24, "Poor", 0, "T2")>>)>>)>>)
ListBody == [kind |-> "list", has_parameters |-> FALSE, parameters |-> <<>>]
\* a third series the extraction has no case for, between the two it knows:
\* with one reading of its own shape, and with an empty readings list
ExtraSeriesBody ==
    JsonObject(TRUE, <<Parameter(TRUE,
        <<Hour(80, 12, 50),
          Series("8HR_AV", <<Reading({"until"}, 0, 0, "", 0, "T1")>>),
          Day(90, 24, 100)>>)>>)
ExtraEmptySeriesBody ==
    JsonObject(TRUE, <<Parameter(TRUE,
        <<Hour(80, 12, 50), Series("8HR_AV", <<>>), Day(90, 24, 100)>>)>>)
\* neither series has confidence or samples
ZeroBothBody == JsonObject(TRUE, <<Parameter(TRUE, <<Hour(0, 0, 30), Day(0, 0, 200)>>)>>)

Answer(how, st, body) == [how |-> how, status |-> st, body |-> body]

\* What can come back from the GET of line 343 and resp.json() of line 346:
\* an exception raised by the GET, a body that does not decode, or a decoded
\* body under any status (the status is not looked at).
Answers ==
    { Answer("error", 0, NoBody), Answer("undecodable", 500, NoBody),
      Answer("json", 200, GoodBody), Answer("json", 200, LaterBody),
      Answer("json", 200, ZeroHourBody), Answer("json", 200, HourOnlyBody),
      Answer("json", 200, ReversedBody), Answer("json", 200, ReversedZeroHourBody),
      Answer("json", 404, NotFoundBody), Answer("json", 200, EmptyParametersBody),
      Answer("json", 200, NoSeriesBody), Answer("json", 200, EmptyReadingsBody),
      Answer("json", 200, MissingFieldBody), Answer("json", 200, ListBody),
      Answer("json", 200, ExtraSeriesBody), Answer("json", 200, ExtraEmptySeriesBody),
      Answer("json", 200, ZeroBothBody) }

\* aqi.to_aqi([(aqi.POLLUTANT_PM25, c)]) (lines 292, 302): the EPA
\* breakpoint table, linear within a band and rounded to an integer;
\* c10 is the concentration in tenths.
aqi_band(c10) ==
    IF c10 <= 120 THEN <<0, 120, 0, 50>>
    ELSE IF c10 <= 354 THEN <<121, 354, 51, 100>>
    ELSE IF c10 <= 554 THEN <<355, 554, 101, 150>>
    ELSE IF c10 <= 1504 THEN <<555, 1504, 151, 200>>
    ELSE IF c10 <= 2504 THEN <<1505, 2504, 201, 300>>
    ELSE IF c10 <= 3504 THEN <<2505, 3504, 301, 400>>
    ELSE <<3505, 5004, 401, 500>>

to_aqi(c10) ==
    LET b == aqi_band(c10)
        num == (b[4] - b[3]) * (c10 - b[1])
        den == b[2] - b[1]
    IN  b[3] + ((2 * num + den) \div (2 * den))

\* the state of the loop of lines 283-317: the attributes so far, and
\* whether a statement raised
Ran(f) == [f |-> f, raised |-> FALSE]
Raised(f) == [f |-> f, raised |-> TRUE]

\* case "1HR_AV" (lines 286-296), statement by statement
hour_case(f, r, name) ==
    IF "confidence" \notin r.has THEN Raised(f)
    ELSE IF "totalSample" \notin r.has
      THEN Raised([f EXCEPT !.confidence = r.confidence])
    ELSE LET f2 == [f EXCEPT !.confidence = r.confidence,
                             !.total_sample = r.totalSample]
             f3 == IF f2.confidence > 0 /\ f2.total_sample > 0
                     THEN IF "healthAdvice" \notin r.has THEN Raised(f2)
                          ELSE IF "averageValue" \notin r.has
                            THEN Raised([f2 EXCEPT !.aqi_pm25 = r.healthAdvice])
                          ELSE Ran([f2 EXCEPT !.aqi_pm25 = r.healthAdvice,
                                              !.pm25 = r.averageValue,
                                              !.aqi = to_aqi(r.averageValue),
                                              !.data_source_1h = name])
                     ELSE Ran(f2)
         IN  IF f3.raised THEN f3
             ELSE IF "until" \notin r.has THEN Raised(f3.f)
             ELSE Ran([f3.f EXCEPT !.until = r.until])

\* case "24HR_AV" (lines 297-317), statement by statement
day_case(f, r, name) ==
    IF "confidence" \notin r.has THEN Raised(f)
    ELSE IF "totalSample" \notin r.has
      THEN Raised([f EXCEPT !.confidence_24h = r.confidence])
    ELSE IF "healthAdvice" \notin r.has
      THEN Raised([f EXCEPT !.confidence_24h = r.confidence,
                            !.total_sample_24h = r.totalSample])
    ELSE IF "averageValue" \notin r.has
      THEN Raised([f EXCEPT !.confidence_24h = r.confidence,
                            !.total_sample_24h = r.totalSample,
                            !.aqi_pm25_24h = r.healthAdvice])
    ELSE LET f4 == [f EXCEPT !.confidence_24h = r.confidence,
                             !.total_sample_24h = r.totalSample,
                             !.aqi_pm25_24h = r.healthAdvice,
                             !.pm25_24h = r.averageValue,
                             !.aqi_24h = to_aqi(r.averageValue)]
         IN  IF /\ f4.confidence = 0 /\ f4.total_sample = 0
                /\ f4.confidence_24h > 0 /\ f4.total_sample_24h > 0
               THEN Ran([f4 EXCEPT !.aqi_pm25 = f4.aqi_pm25_24h,
                                   !.pm25 = f4.pm25_24h,
                                   !.aqi = f4.aqi_24h,
                                   !.data_source_1h = name])
               ELSE Ran(f4)

\* the loop of lines 283-317 from element i on
RECURSIVE extract_series(_, _, _)
extract_series(f, series, i) ==
    IF i > Len(series) THEN Ran(f)
    ELSE IF Len(series[i].readings) = 0 THEN Raised(f)
    ELSE LET r == series[i].readings[1]
             step == IF series[i].name = "1HR_AV" THEN hour_case(f, r, series[i].name)
                     ELSE IF series[i].name = "24HR_AV"
                       THEN day_case(f, r, series[i].name)
                     ELSE Ran(f)
         IN  IF step.raised THEN step ELSE extract_series(step.f, series, i + 1)

\* lines 320-333: the dict built from the attributes
published_values(f) ==
    [aqi |-> f.aqi, aqi_24h |-> f.aqi_24h, aqi_pm25 |-> f.aqi_pm25,
     aqi_pm25_24h |-> f.aqi_pm25_24h, pm25 |-> f.pm25, pm25_24h |-> f.pm25_24h,
     confidence |-> f.confidence, confidence_24h |-> f.confidence_24h,
     data_source |-> f.data_source_1h, total_samples |-> f.total_sample,
     total_samples_24h |-> f.total_sample_24h, until |-> f.until]

\* line 278: self.observation_data = {}
cleared_observation(od) == NoObservation

\* extract_observation_data (lines 273-333) on a decoded body: the
\* attributes, observation_data and last_updated it leaves, and whether it
\* raised.
extract_observation_data(body, f, od, lu, n) ==
    LET od0 == cleared_observation(od)
    IN  IF body.kind # "object"
          THEN [f |-> f, od |-> od0, lu |-> lu, raised |-> TRUE]
        ELSE IF ~body.has_parameters
          THEN [f |-> f, od |-> od0, lu |-> lu, raised |-> FALSE]
        ELSE IF Len(body.parameters) = 0
          THEN [f |-> f, od |-> od0, lu |-> lu, raised |-> TRUE]
        ELSE LET loop == IF body.parameters[1].has_series
                           THEN extract_series(f, body.parameters[1].series, 1)
                           ELSE Ran(f)
             IN  IF loop.raised
                   THEN [f |-> loop.f, od |-> od0, lu |-> lu, raised |-> TRUE]
                 ELSE IF loop.f.aqi_pm25_24h = Unset
                   THEN [f |-> loop.f, od |-> od0, lu |-> Dt(n), raised |-> TRUE]
                 ELSE [f |-> loop.f,
                       od |-> [published |-> TRUE, values |-> published_values(loop.f)],
                       lu |-> Dt(n), raised |-> FALSE]

\* get_sensor(key) (lines 259-271): found is FALSE where it returns None.
get_sensor(found, od, key) ==
    IF found /\ od.published
      THEN [found |-> TRUE, value |-> od.values[key]]
      ELSE [found |-> FALSE, value |-> NullValues[key]]

\* the decorator lets a call through one second too early
throttle_open_at_limit ==
    throttle_last = NoTime \/ now - throttle_last >= throttle_seconds

\* Throttle (line 335): the method runs when it never ran or more than five
\* minutes have passed since it last did.
throttle_open == throttle_last = NoTime \/ now - throttle_last > throttle_seconds

\* async_update is called: throttled, or run up to the GET of line 343.
\* locations_data is {} (line 56), not None, so line 341 is skipped.  A call
\* that is throttled may come while an earlier one awaits its answer.
async_update_call ==
    /\ cpc = "idle" \/ ~throttle_open
    /\ IF throttle_open
          THEN /\ throttle_last' = now
               /\ cpc' = "requested"
               /\ cret' = "ran"
          ELSE /\ cret' = "throttled"
               /\ cret # "throttled"
               /\ UNCHANGED <<throttle_last, cpc>>
    /\ UNCHANGED <<now, apiVars, procVars, coordVars, fetchVars, cacheVars,
                   site_found, site_id, latitude, longitude, located, cfields,
                   observation_data, c_last_updated, answer>>

AsyncUpdateCall ==
    /\ async_update_call
    /\ UNCHANGED hass_data

\* The GET answers and async_update runs to its end: lines 343-354.  Every
\* exception is caught at 348-354.
AsyncUpdateResume(a) ==
    /\ cpc = "requested"
    /\ a \in Answers
    /\ answer' = a
    /\ cpc' = "idle"
    /\ IF a.how # "json"
          THEN UNCHANGED <<cfields, observation_data, c_last_updated>>
          ELSE LET x == extract_observation_data(a.body, cfields, observation_data,
                                                 c_last_updated, now)
               IN  /\ cfields' = x.f
                   /\ observation_data' = x.od
                   /\ c_last_updated' = x.lu
    /\ UNCHANGED <<now, apiVars, procVars, coordVars, fetchVars, cacheVars,
                   cret, throttle_last, site_found, site_id, latitude,
                   longitude, located, hass_data>>

\* Time passes: a second, or five minutes.  The clock is followed for the
\* first MaxSeconds seconds of each five-minute span.
CollectorTick(d) ==
    /\ d \in {1, throttle_seconds}
    /\ now + d <= CollectorEnd
    /\ d = 1 => (now + 1 - StartTime) % throttle_seconds <= MaxSeconds
    /\ now' = now + d
    /\ UNCHANGED <<apiVars, procVars, coordVars, fetchVars, cacheVars,
                   collectorVars>>

\* The collector is built with or without a site id (lines 83-85).
InitCollector ==
    /\ now = StartTime
    /\ loaded_data = FALSE
    /\ ApiIdle
    /\ FetchIdle
    /\ CacheIdle
    /\ CollectorIdle
    /\ \E epa_site_id \in {"", ConfiguredSite} : CollectorBuilt(epa_site_id, 1, 1)

NextCollector ==
    \/ AsyncUpdateCall
    \/ \E a \in Answers : AsyncUpdateResume(a)
    \/ \E d \in {1, throttle_seconds} : CollectorTick(d)

SpecCollector == InitCollector /\ [][NextCollector]_vars

(***************************************************************************)
(* Properties of the Collector (specification SpecCollector)               *)
(***************************************************************************)
\* the payload has the fields the extraction reads
well_formed(body) ==
    /\ body.kind = "object"
    /\ body.has_parameters
    /\ Len(body.parameters) > 0
    /\ body.parameters[1].has_series
    /\ \A i \in 1..Len(body.parameters[1].series) :
          LET srs == body.parameters[1].series[i]
          IN  /\ Len(srs.readings) > 0
              /\ srs.name \in {"1HR_AV", "24HR_AV"} => srs.readings[1].has = ReadingKeys

\* the update failed: the GET raised, the body did not decode, the status
\* was an error, or the payload lacked a field
update_failed(a) ==
    \/ a.how # "json"
    \/ a.status # 200
    \/ ~well_formed(a.body)

\* C4: an async_update that fails leaves the value get_sensor returns for
\* every metric key as it was before the attempt.
C4_FailedUpdateKeepsSensors ==
    [][(cpc = "requested" /\ cpc' = "idle" /\ update_failed(answer')) =>
          \A key \in SensorKeys :
              get_sensor(site_found', observation_data', key)
                  = get_sensor(site_found, observation_data, key)
      ]_vars

(***************************************************************************)
(* Properties of the fetch cycle (specification Spec)                      *)
(***************************************************************************)
\* call p's await of its fetch task returns in this step
resumes(p) == pc[p] = "fetched" /\ pc'[p] # "fetched"

\* a cycle __quality_update ran, scheduled or manual
is_cycle(p) == kind[p] \in {"scheduled", "manual"}

\* C1: at most one fetch is in flight at any time, and every coordinator
\* trigger (scheduled or manual) that has finished resolved with the outcome
\* of a fetch: a status get_quality_update returned, not an exception of
\* its own.
C1_SingleFetchInFlight ==
    /\ Cardinality({p \in Procs : pc[p] = "fetching"}) <= 1
    /\ \A p \in Procs :
          (is_cycle(p) /\ pc[p] = "done") =>
              ret[p] \in {"", "Air Quality failed to fetch",
                          "Exception in get_quality_update()"}

\* C2: a get_quality_update whose fetch failed (no payload, or a payload
\* that is not an object with a "parameters" list) answers "Air Quality
\* failed to fetch", and a call that answers so leaves the in-memory data,
\* the loaded flag and the cache file as they were and starts no save.
C2_FailedFetchLeavesData ==
    [][\A p \in Procs :
          resumes(p) =>
            /\ ( /\ tasks_fetch = p
                 /\ (result[p] = None \/ ~is_parameters_list(result[p])) )
               => ret'[p] = "Air Quality failed to fetch"
            /\ ret'[p] = "Air Quality failed to fetch"
               => /\ data' = data
                  /\ loaded_data' = loaded_data
                  /\ pc'[p] # "serialise"
                  /\ file' = file /\ spc' = spc
      ]_vars

\* an earlier call stamped the data, then a later call's fetch failed
C2_Witness ==
    \E p, q \in Procs :
        /\ pc[q] = "done" /\ ret[q] = "Exception in get_quality_update()"
        /\ pc[p] = "done" /\ ret[p] = "Air Quality failed to fetch"
        /\ data.last_updated # EpochZero
        /\ file = FileInitial

served(d, field) ==
    LET aqi == stored_aqi(d, CONF_SITE_ID)
    IN  IF Len(aqi) = 0 THEN 0 ELSE aqi[Len(aqi)][field]

series_value(b, name) ==
    LET i == CHOOSE i \in 1..Len(b.params) : b.params[i].name = name
    IN  b.params[i].value

\* C5: before any fetch the data is the sentinel, and a call whose fetch
\* returned a payload with a 1HR_AV and a 24HR_AV series leaves the data
\* holding that payload's hourly and 24-hour values, with last_updated the
\* time the fetch completed.
C5_FirstFetchPopulates ==
    [][\A p \in Procs :
          ( /\ resumes(p)
            /\ tasks_fetch = p
            /\ result[p] \in {ApiPayload, DictPayload} )
          => /\ data'.last_updated = Dt(now)
             /\ served(data', "averageValue1Hr") = series_value(result[p], "1HR_AV")
             /\ served(data', "averageValue24Hr") = series_value(result[p], "24HR_AV")
      ]_vars

(***************************************************************************)
(* Properties of __serialise_data (specification SpecCache)                *)
(***************************************************************************)
\* C9: a call of __serialise_data with a record whose last_updated is the
\* epoch, or made before any data was loaded, returns False at once: it
\* neither waits for the lock nor opens the file, and the file is unchanged.
C9_EpochSaveIsNoOp ==
    [][\A p \in Procs :
          ( /\ spc[p] = "idle" /\ spc'[p] # "idle"
            /\ (arg'[p].last_updated = EpochZero \/ ~loaded_data) )
          => /\ spc'[p] = "done"
             /\ sret'[p] = FALSE
             /\ file' = file
             /\ lock' = lock
      ]_vars

\* data is loaded, the file holds a saved payload, and a call with the
\* epoch record has returned False
C9_Witness ==
    \E p \in Procs :
        /\ loaded_data
        /\ spc[p] = "done" /\ arg[p].last_updated = EpochZero /\ ~sret[p]
        /\ file.state = "payload"

in_section(p) == spc[p] \in {"opening", "writing"}

Last(seq) == seq[Len(seq)]
AllTryLater(seq) == \A i \in 1..Len(seq) : seq[i] = 429

\* C6: when the remote end answers 429 exactly k times (k < 10) and then 200
\* with a JSON body, __fetch_data returns that body and has issued k + 1 GET
\* requests; it never gives up on a 429 while fewer than 10 have been
\* answered.
C6_RetryThenSuccess ==
    /\ ( /\ fpc = "returned" /\ cause = "answer"
         /\ Len(answers) > 0 /\ Last(answers) = 200
         /\ AllTryLater(SubSeq(answers, 1, Len(answers) - 1))
         /\ Len(answers) - 1 < 10
         /\ answered.kind \notin {"undecodable", "null"} )
       => (fresult = answered /\ gets = (Len(answers) - 1) + 1)
    /\ ( /\ fpc = "returned" /\ cause = "answer" /\ AllTryLater(answers) )
       => Len(answers) >= 10

C6_Witness ==
    /\ fpc = "returned"
    /\ answers = <<429, 429, 429, 429, 429, 429, 429, 429, 429, 200>>
    /\ gets = 10
    /\ fresult = ApiPayload

\* C7: when every answer is 429, __fetch_data fails (returns None, retries
\* exhausted) after exactly 10 GET requests, having slept 9 times: no sleep
\* follows the last request.
C7_RetriesExhausted ==
    /\ ( AllTryLater(answers) /\ Len(answers) >= 10 )
       => /\ fpc = "returned" /\ fresult = None /\ status = status_exhausted
          /\ Len(answers) = 10 /\ gets = 10 /\ sleeps = 9
    /\ ( fpc = "returned" /\ status = status_exhausted )
       => (AllTryLater(answers) /\ gets = 10)

C7_Witness ==
    /\ fpc = "returned"
    /\ status = status_exhausted
    /\ answers = <<429, 429, 429, 429, 429, 429, 429, 429, 429, 429>>
    /\ fresult = None

\* C8: an answer whose status is neither 200 nor 429, and an error raised by
\* the GET, end __fetch_data with a failure at once: the task has returned
\* None and no GET or back-off sleep has followed that attempt.
C8_NoRetryOnError ==
    /\ ( Len(answers) > 0 /\ Last(answers) \notin {200, 429} )
       => /\ fpc = "returned" /\ fresult = None
          /\ gets = Len(answers) /\ sleeps = Len(answers) - 1
    /\ cause = "error"
       => /\ fpc = "returned" /\ fresult = None
          /\ gets = Len(answers) + 1 /\ sleeps = Len(answers)

C8_Witness ==
    /\ fpc = "returned"
    /\ answers = <<429, 429, 404>>
    /\ gets = 3
    /\ sleeps = 2
    /\ fresult = None

(***************************************************************************)
(* Further properties of the fetch cycle (specification Spec)              *)
(***************************************************************************)
\* C11: when a call of get_quality_update ends, succeeded or failed, the
\* stored last_attempt is the time that call started, and after a failed
\* call it is later than the stored last_updated.
C11_LastAttemptRecorded ==
    [][\A p \in Procs :
          resumes(p) =>
            /\ data'.last_attempt.t = last_attempt[p]
            /\ ret'[p] = "Air Quality failed to fetch"
                  => data'.last_attempt.t > data'.last_updated.t
      ]_vars

object_hook(v) == IF v.type = "str" THEN Dt(v.t) ELSE v

\* json.loads(text, cls=JSONDecoder) of a saved record
loads(text) ==
    [text EXCEPT !.last_updated = object_hook(text.last_updated),
                 !.last_attempt = object_hook(text.last_attempt)]

\* The record an earlier run saved at the midnight before construction.
CachedRecord ==
    [InitData EXCEPT !.site = {[id |-> CONF_SITE_ID, aqi |-> <<>>]},
                     !.last_updated = Dt(day_seconds),
                     !.last_attempt = IsoStr(day_seconds)]
CachedFile == FileState("payload", dumps(CachedRecord))

InitStartup ==
    /\ now = StartTime
    /\ loaded_data = FALSE
    /\ ApiIdle
    /\ FetchIdle
    /\ lock = NoTask
    /\ spc = [p \in Procs |-> "idle"]
    /\ arg = [p \in Procs |-> InitData]
    /\ payload = [p \in Procs |-> InitData]
    /\ sret = [p \in Procs |-> FALSE]
    /\ io_failed = FALSE
    /\ file \in {FileInitial, CachedFile}
    /\ CollectorIdle
    /\ CollectorBuilt(ConfiguredSite, 1, 1)

SpecStartup == InitStartup /\ [][Next]_vars

\* C13: once setup has run (the recurring checks are armed) with a record
\* in the cache file, and until a fetch has completed, the in-memory data
\* is the cached record.
C13_SetupSeedsFromCache ==
    (timers /\ file.state = "payload" /\ \A p \in Procs : pc[p] # "done")
        => data = loads(file.text)

(***************************************************************************)
(* The schedule across local midnight (specification SpecSchedule): the    *)
(* coordinator's setup, periodic checks and deferred tasks, with the clock *)
(* moving from one five-minute boundary to the next.                       *)
(***************************************************************************)
\* The schedule is followed from five minutes before the midnight that ends
\* day 1.
ScheduleStart == (2 * day_seconds) - check_every
ScheduleEnd == ScheduleStart + (ScheduleTicks * check_every)

InitSchedule ==
    /\ now = ScheduleStart
    /\ loaded_data = FALSE
    /\ ApiIdle
    /\ FetchIdle
    /\ CacheIdle
    /\ CollectorIdle
    /\ CollectorBuilt(ConfiguredSite, 1, 1)

\* The clock, followed from setup on, reaches the next five-minute
\* boundary.
ScheduleTick ==
    /\ timers
    /\ now + check_every <= ScheduleEnd
    /\ now' = now + check_every
    /\ UNCHANGED <<apiVars, procVars, coordVars, fetchVars, cacheVars,
                   collectorVars>>

\* The deferred task is cancelled from outside.  Cancelled while it sleeps
\* (started), it catches CancelledError at line 112 and its `finally`
\* clears the slot; cancelled before its first step, its body never runs
\* and the slot keeps naming the finished task.
CancelPending(p, started) ==
    /\ pc[p] = "waiting"
    /\ pc' = [pc EXCEPT ![p] = "done"]
    /\ ret' = [ret EXCEPT ![p] = "cancelled"]
    /\ pending_update' = IF started /\ pending_update # NoTask
                           THEN NoTask ELSE pending_update
    /\ UNCHANGED <<now, apiVars, kind, result, last_attempt, flag_set, notified,
                   wake, data_updated, intervals, interval_just_passed, timers,
                   last_check, listener_saw, fetchVars, cacheVars, collectorVars>>

NextSchedule ==
    \/ ScheduleTick
    \/ ListenersTick
    \/ \E p \in Procs :
        \/ \E started \in BOOLEAN : CancelPending(p, started)
        \/ Setup(p)
        \/ PeriodicCheck(p)
        \/ DeferredWake(p)
        \/ ServiceEventUpdate(p)
        \/ QualityUpdateRun(p)

SpecSchedule == InitSchedule /\ [][NextSchedule]_vars

\* the last trigger time of the 24-hour window that starts `future` days
\* after today's midnight
last_trigger(n, future) ==
    get_day_start_utc(n, future + 1) - (day_seconds \div divisions)

\* C14: after setup, once the periodic check of the current five-minute
\* boundary has run, the queue holds a trigger time in the future and
\* reaches to the end of tomorrow's window: it was recomputed for the two
\* windows that follow the last midnight.
C14_MidnightRecompute ==
    (timers /\ last_check = now) =>
        /\ \E i \in 1..Len(intervals) : intervals[i] > now
        /\ intervals[Len(intervals)] >= last_trigger(now, 1)

\* the deferred task p exists and has not finished
pending_task(p) ==
    kind[p] = "scheduled" /\ pc[p] \in {"waiting", "fetching", "fetched"}

\* C15: every deferred task that has not finished is the one recorded in
\* tasks['pending_update'], so at most one exists at any time.
C15_OnePendingUpdate ==
    /\ \A p \in Procs : pending_task(p) => pending_update = p
    /\ Cardinality({p \in Procs : pending_task(p)}) <= 1

\* one deferred task has finished and the next one is pending
C15_Witness ==
    \E p, q \in Procs :
        /\ kind[p] = "scheduled" /\ pc[p] = "done"
        /\ pending_task(q) /\ pending_update = q

(***************************************************************************)
(* Further properties of the Collector (specification SpecCollector)       *)
(***************************************************************************)
\* async_update ends in this step, having decoded a well-formed payload
extracts(a) ==
    /\ cpc = "requested" /\ cpc' = "idle"
    /\ a = answer'
    /\ a.how = "json"
    /\ well_formed(a.body)

\* the payload has a series of this name
has_entry(body, name) ==
    \E i \in 1..Len(body.parameters[1].series) :
        body.parameters[1].series[i].name = name

\* the first reading of the payload's series of this name
entry(body, name) ==
    LET srs == body.parameters[1].series
        i == CHOOSE i \in 1..Len(srs) : srs[i].name = name
    IN  srs[i].readings[1]

\* C16: after the extraction of a well-formed payload with a 1HR_AV entry,
\* whatever that entry's confidence and totalSample and with or without a
\* 24HR_AV entry, the published observation's pm25 is the entry's
\* averageValue.
C16_HourlyValueExact ==
    [][\A a \in Answers :
          (extracts(a) /\ has_entry(a.body, "1HR_AV")) =>
            /\ observation_data'.published
            /\ observation_data'.values.pm25 = entry(a.body, "1HR_AV").averageValue
      ]_vars

\* C17: after the extraction of a well-formed payload whose 1HR_AV entry
\* has confidence 0 and totalSample 0 and whose 24HR_AV entry has both
\* positive, in either order and whatever earlier fetches left, the
\* published hourly pm25, advice and index are those of the 24-hour
\* reading.
C17_ZeroHourFallsBack ==
    [][\A a \in Answers :
          ( /\ extracts(a)
            /\ has_entry(a.body, "1HR_AV") /\ has_entry(a.body, "24HR_AV")
            /\ entry(a.body, "1HR_AV").confidence = 0
            /\ entry(a.body, "1HR_AV").totalSample = 0
            /\ entry(a.body, "24HR_AV").confidence > 0
            /\ entry(a.body, "24HR_AV").totalSample > 0 )
          => /\ observation_data'.published
             /\ observation_data'.values.pm25 = entry(a.body, "24HR_AV").averageValue
             /\ observation_data'.values.aqi_pm25 = entry(a.body, "24HR_AV").healthAdvice
             /\ observation_data'.values.aqi
                  = to_aqi(entry(a.body, "24HR_AV").averageValue)
      ]_vars

(***************************************************************************)
(* Exceptions at the coordinator boundary (specification Spec)             *)
(***************************************************************************)
\* the task of this cycle ended with an exception nothing caught:
\* __quality_update has no handler and wait_for_fetch catches only
\* asyncio.CancelledError
escaped(p) == is_cycle(p) /\ pc[p] = "done" /\ ret[p] = "TypeError"

\* C18: no exception of a scheduled or manual cycle, the call from
\* __quality_update into get_quality_update included, leaves the task of
\* the cycle.
C18_NoExceptionEscapes ==
    \A p \in Procs : ~escaped(p)

(***************************************************************************)
(* Throttling of Collector.async_update (specification SpecCollector)      *)
(***************************************************************************)
\* this step is a call of async_update that goes on to the GET
requests == cpc = "idle" /\ cpc' = "requested"

\* this step is a call of async_update the decorator answers by itself
throttled == cret # "throttled" /\ cret' = "throttled"

\* C19: a call of async_update performs the HTTP request only if no
\* earlier call did so in the five minutes before it (throttle_last is the
\* time of the latest call that did, and nothing else writes it); every
\* other call returns without a request and leaves the collector's state
\* as it was.
C19_BurstsCollapse ==
    [][ /\ requests =>
              /\ throttle_last = NoTime \/ now - throttle_last > throttle_seconds
              /\ throttle_last' = now
        /\ throttle_last' # throttle_last => requests
        /\ throttled =>
              /\ ~requests
              /\ UNCHANGED <<cpc, throttle_last, site_found, site_id, located,
                             cfields, observation_data, c_last_updated, answer>>
      ]_vars

\* a call exactly five minutes after the call that fetched was throttled,
\* with the observation of that fetch still published
C19_Witness ==
    /\ cret = "throttled"
    /\ throttle_last # NoTime
    /\ now - throttle_last = throttle_seconds
    /\ observation_data.published

(***************************************************************************)
(* Site resolution: Collector.get_locations_data (specification            *)
(* SpecLocation)                                                           *)
(***************************************************************************)
\* What the site search answers: a status and a body with or without
\* "records", each record with or without "siteID".
SiteRecord(has_id) == [has_id |-> has_id, siteID |-> NearestSite]
LocationBody(has_records, records) == [has_records |-> has_records, records |-> records]
LocationAnswer(st, body) == [status |-> st, body |-> body]
SiteListBody == LocationBody(TRUE, <<SiteRecord(TRUE)>>)
NoRecordsBody == LocationBody(FALSE, <<>>)
EmptyRecordsBody == LocationBody(TRUE, <<>>)
NoSiteIdBody == LocationBody(TRUE, <<SiteRecord(FALSE)>>)
LocationAnswers ==
    { LocationAnswer(st, b) : st \in {200, 404},
                              b \in {SiteListBody, NoRecordsBody, EmptyRecordsBody,
                                     NoSiteIdBody} }

\* get_locations_data (lines 87-105) for the answer r: the new site_found
\* and site_id and how the call ends.  Without both coordinates no request
\* is made (line 90); a status other than 200 is passed over (line 94);
\* only KeyError is caught (line 100), so the IndexError of an empty
\* "records" list leaves the method.
get_locations_data(r, found, id) ==
    IF latitude = 0 \/ longitude = 0
      THEN [found |-> found, id |-> id, ends |-> "returned"]
    ELSE IF r.status # 200
      THEN [found |-> found, id |-> id, ends |-> "returned"]
    ELSE IF ~r.body.has_records
      THEN [found |-> FALSE, id |-> id, ends |-> "returned"]
    ELSE IF Len(r.body.records) = 0
      THEN [found |-> found, id |-> id, ends |-> "IndexError"]
    ELSE IF ~r.body.records[1].has_id
      THEN [found |-> FALSE, id |-> id, ends |-> "returned"]
    ELSE [found |-> TRUE, id |-> r.body.records[1].siteID, ends |-> "returned"]

GetLocationsData(r) ==
    /\ r \in LocationAnswers
    /\ LET x == get_locations_data(r, site_found, site_id)
       IN  /\ site_found' = x.found
           /\ site_id' = x.id
           /\ located' = x.ends
    /\ UNCHANGED <<now, apiVars, procVars, coordVars, fetchVars, cacheVars,
                   cpc, cret, throttle_last, latitude, longitude, hass_data,
                   cfields, observation_data, c_last_updated, answer>>

\* valid_location (lines 107-114) and get_location (lines 116-125)
valid_location(found) == found
get_location(found, id) == IF found THEN id ELSE ""

\* the value getters get_aqi .. get_until (lines 127-257): the attribute, or
\* the getter's 0 or "" when no site is found
get_value(found, f, key) ==
    IF found THEN [found |-> TRUE, value |-> f[key]]
             ELSE [found |-> FALSE,
                   value |-> IF key \in {"aqi_pm25", "aqi_pm25_24h", "data_source_1h"}
                               THEN "" ELSE 0]

\* The answers of observation fetches between site searches.
LocationRunAnswers == {Answer("json", 200, GoodBody), Answer("error", 0, NoBody)}

\* The collector is built with or without a site id and with or without
\* coordinates (config_flow.py lines 73-77, 154-159, 238-242).
InitLocation ==
    /\ now = StartTime
    /\ loaded_data = FALSE
    /\ ApiIdle
    /\ FetchIdle
    /\ CacheIdle
    /\ CollectorIdle
    /\ \E epa_site_id \in {"", ConfiguredSite}, lat \in {0, 1}, lon \in {0, 1} :
          CollectorBuilt(epa_site_id, lat, lon)

NextLocation ==
    \/ \E r \in LocationAnswers : GetLocationsData(r)
    \/ AsyncUpdateCall
    \/ \E a \in LocationRunAnswers : AsyncUpdateResume(a)
    \/ CollectorTick(throttle_seconds)

SpecLocation == InitLocation /\ [][NextLocation]_vars

\* the search found no site: a status other than 200, no "records", or an
\* empty "records" list
no_site(r) ==
    r.status # 200 \/ ~r.body.has_records \/ Len(r.body.records) = 0

\* C20: a site search from coordinates that finds no site or gets no site
\* list (status other than 200, no "records", empty "records") ends, without
\* an exception, with the collector in the not-found state: valid_location
\* is False, get_location is "", and every value getter and get_sensor
\* answer with their sentinel.
C20_NoSiteIsNotFound ==
    [][\A r \in LocationAnswers :
          (GetLocationsData(r) /\ latitude # 0 /\ longitude # 0 /\ no_site(r)) =>
            /\ located' = "returned"
            /\ ~valid_location(site_found')
            /\ get_location(site_found', site_id') = ""
            /\ \A key \in DOMAIN cfields' : ~get_value(site_found', cfields', key).found
            /\ \A key \in SensorKeys :
                  ~get_sensor(site_found', observation_data', key).found
      ]_vars

(***************************************************************************)
(* async_setup_entry from the first load on (specification SpecSetup)      *)
(***************************************************************************)
\* What async_update meets for an answer: the exception the GET raises, the
\* one resp.json() raises, or none (what the extraction raises it handles
\* itself, see extract_observation_data).
raised_in_async_update(a) ==
    IF a.how = "error" THEN "ClientConnectorError"
    ELSE IF a.how = "undecodable" THEN "ContentTypeError"
    ELSE ""

\* the except clauses of async_update (collector.py lines 348, 350)
async_update_handlers == {"ConnectionRefusedError", "Exception"}

\* every exception class of the model derives from Exception, none from
\* another class of the model
is_instance(exc, cls) == cls = "Exception" \/ cls = exc

\* the exception that leaves async_update for the answer a ("": none)
leaves_async_update(a) ==
    IF /\ raised_in_async_update(a) # ""
       /\ ~\E h \in async_update_handlers : is_instance(raised_in_async_update(a), h)
      THEN raised_in_async_update(a)
      ELSE ""

\* lines 107-116: the collector is built and its first async_update called.
SetupEntryLoad ==
    /\ hass_data.pc = "start"
    /\ cpc = "idle"
    /\ async_update_call
    /\ hass_data' = [hass_data EXCEPT !.pc = "loading"]

\* lines 115-121: the first load is over.  A ClientConnectorError that
\* leaves it becomes ConfigEntryNotReady; any other exception leaves setup
\* as it is; otherwise the platforms are forwarded, the coordinator is
\* created and async_refresh calls async_update again.
SetupEntryResume ==
    /\ hass_data.pc = "loading"
    /\ cpc = "idle"
    /\ LET exc == leaves_async_update(answer)
       IN  IF exc # ""
             THEN /\ hass_data' = [hass_data EXCEPT
                                     !.pc = "raised",
                                     !.load = answer.how,
                                     !.raised = IF exc = "ClientConnectorError"
                                                  THEN "ConfigEntryNotReady" ELSE exc]
                  /\ UNCHANGED <<now, apiVars, procVars, coordVars, fetchVars,
                                 cacheVars, cpc, cret, throttle_last, site_found,
                                 site_id, latitude, longitude, located, cfields,
                                 observation_data, c_last_updated, answer>>
             ELSE /\ hass_data' = [hass_data EXCEPT !.pc = "refreshing",
                                                    !.load = answer.how,
                                                    !.coordinator = TRUE]
                  /\ async_update_call

\* lines 123-138: the refresh is over, the collector and the coordinator
\* are stored and has_loaded is set.
SetupEntryFinish ==
    /\ hass_data.pc = "refreshing"
    /\ cpc = "idle"
    /\ hass_data' = [hass_data EXCEPT !.pc = "ready", !.has_loaded = TRUE]
    /\ UNCHANGED <<now, apiVars, procVars, coordVars, fetchVars, cacheVars,
                   cpc, cret, throttle_last, site_found, site_id, latitude,
                   longitude, located, cfields, observation_data,
                   c_last_updated, answer>>

\* sensor.py lines 218-220: an entity the forwarded platform created, or the
\* coordinator, calls async_update.
SensorUpdate ==
    /\ hass_data.pc \in {"refreshing", "ready"}
    /\ AsyncUpdateCall

\* The answers of the loads of a setup and of the sensors' updates after it.
SetupAnswers ==
    { Answer("error", 0, NoBody), Answer("undecodable", 500, NoBody),
      Answer("json", 200, GoodBody), Answer("json", 404, NotFoundBody) }

InitSetup ==
    /\ now = StartTime
    /\ loaded_data = FALSE
    /\ ApiIdle
    /\ FetchIdle
    /\ CacheIdle
    /\ cpc = "idle"
    /\ cret = ""
    /\ throttle_last = NoTime
    /\ cfields = InitFields
    /\ observation_data = NoObservation
    /\ c_last_updated = EpochZero
    /\ answer = NoAnswer
    /\ located = ""
    /\ hass_data = EntryState("start", "", "", FALSE, FALSE)
    /\ \E epa_site_id \in {"", ConfiguredSite} : CollectorBuilt(epa_site_id, 1, 1)

NextSetup ==
    \/ SetupEntryLoad
    \/ \E a \in SetupAnswers : AsyncUpdateResume(a)
    \/ SetupEntryResume
    \/ SetupEntryFinish
    \/ SensorUpdate
    \/ \E d \in {1, throttle_seconds} : CollectorTick(d)

SpecSetup == InitSetup /\ [][NextSetup]_vars

\* C21: when the first load of async_setup_entry has failed (the GET raised
\* or the body did not decode), setup has raised ConfigEntryNotReady, has
\* created no coordinator and has not set has_loaded.
C21_FailedLoadNotReady ==
    (hass_data.pc \in {"raised", "refreshing", "ready"} /\ hass_data.load # "json") =>
        /\ hass_data.raised = "ConfigEntryNotReady"
        /\ ~hass_data.coordinator
        /\ ~hass_data.has_loaded

(***************************************************************************)
(* Encoding and decoding of the cache record (specification SpecCache)     *)
(***************************************************************************)
\* the save of p has encoded its record and not yet finished
encoded(p) == spc[p] \in {"lock_wait", "opening", "writing"}

\* C22: decoding (JSONDecoder) the text the encoder (DateTimeEncoder)
\* produced for a record handed to a save gives that record back, each
\* field with its value and its type, the two timestamps to the second.
C22_RoundTrip ==
    \A p \in Procs : encoded(p) => loads(payload[p]) = arg[p]

(***************************************************************************)
(* Order of the steps of a successful cycle (specification Spec)           *)
(***************************************************************************)
\* C23: when the fetch of a call has delivered a payload that parses, the
\* in-memory data is stamped and the call goes on to persist the cache;
\* listeners are notified for a fetch only after that save, with the
\* data-changed flag set, and they see it as true; the flag is false
\* whenever no such notification is in progress.
C23_SuccessOrder ==
    [][\A p \in Procs :
          /\ (resumes(p) /\ http_data_call_ok) =>
                /\ data'.last_updated = Dt(now)
                /\ pc'[p] = "serialise"
          /\ (~notified[p] /\ notified'[p]) =>
                /\ pc[p] = "serialise"
                /\ flag_set'[p]
                /\ listener_saw' = "True"
          /\ data_updated' = FALSE
      ]_vars

(***************************************************************************)
(* The deferred task of the periodic check (specification SpecSchedule)    *)
(***************************************************************************)
\* this step arms p as the deferred task
arms(p) == pc[p] = "idle" /\ pc'[p] = "waiting"

\* this step takes the head off the queue
pops == timers /\ Len(intervals) > 0 /\ intervals' = Tail(intervals)

\* the statuses get_quality_update returns (epaapi.py lines 292, 312, 314)
fetch_statuses ==
    {"", "Air Quality failed to fetch", "Exception in get_quality_update()"}

\* C24: a check arms a deferred task only when the head lies in the current
\* five-minute window and none is pending, it arms one task, set to wake at
\* the head's time; and the head is taken off the queue only in a step in
\* which that task, its wake time reached, has performed its fetch.
C24_ArmFetchThenPop ==
    [][ /\ \A p \in Procs :
              arms(p) =>
                /\ head_in_window(intervals, now)
                /\ pending_update = NoTask
                /\ pending_update' = p
                /\ wake'[p] = intervals[1]
                /\ \A q \in Procs \ {p} : ~arms(q)
        /\ pops =>
              \E p \in Procs :
                  /\ kind[p] = "scheduled"
                  /\ now >= wake[p]
                  /\ pc[p] # "done" /\ pc'[p] = "done"
                  /\ ret'[p] \in fetch_statuses
      ]_vars

\* this step is a periodic check
checks == last_check # now /\ last_check' = now

\* C25: whenever the periodic check looks at the queue, the head is not
\* earlier than the start of the current five-minute window: an entry whose
\* window has passed is no longer in the queue.
C25_PastHeadDropped ==
    [][(checks /\ Len(intervals) > 0) =>
          intervals[1] >= (now \div check_every) * check_every
      ]_vars

\* the queue is strictly ascending
ascending(q) == \A i \in 1..(Len(q) - 1) : q[i] < q[i + 1]

\* C26: in every reachable state the queue is sorted strictly ascending,
\* hence without duplicate timestamps: after setup's computation, after
\* every pop by a deferred task and after any cancellation.
C26_QueueAscending == ascending(intervals)

\* setup has computed the queue, a deferred task has popped its head and
\* ended, another has been cancelled, and entries remain
C26_Witness ==
    /\ timers
    /\ Len(intervals) > 1
    /\ \E p, q \in Procs :
          /\ kind[p] = "scheduled" /\ pc[p] = "done" /\ ret[p] = "TypeError"
          /\ kind[q] = "scheduled" /\ pc[q] = "done" /\ ret[q] = "cancelled"

(***************************************************************************)
(* The schedule computed at any instant (specification SpecCompute)        *)
(***************************************************************************)
\* The instants at which setup runs: around local midnight, on a division
\* boundary and between two boundaries.
ComputeInstants ==
    { (2 * day_seconds) - 1, 2 * day_seconds, (2 * day_seconds) + 1,
      (2 * day_seconds) + (day_seconds \div divisions),
      (2 * day_seconds) + (day_seconds \div divisions) + check_every }

InitCompute ==
    /\ now \in ComputeInstants
    /\ loaded_data = FALSE
    /\ ApiIdle
    /\ FetchIdle
    /\ CacheIdle
    /\ CollectorIdle
    /\ CollectorBuilt(ConfiguredSite, 1, 1)

\* Time moves on by five minutes, for ScheduleTicks steps after the latest
\* instant of setup.
ComputeTick ==
    /\ timers
    /\ now + check_every <=
          (2 * day_seconds) + (day_seconds \div divisions) + (ScheduleTicks * check_every)
    /\ now' = now + check_every
    /\ UNCHANGED <<apiVars, procVars, coordVars, fetchVars, cacheVars,
                   collectorVars>>

NextCompute ==
    \/ ComputeTick
    \/ ListenersTick
    \/ \E p \in Procs :
        \/ Setup(p)
        \/ PeriodicCheck(p)
        \/ DeferredWake(p)

SpecCompute == InitCompute /\ [][NextCompute]_vars

\* the 96 division boundaries of the local day of n and of the next
boundaries(n) ==
    [i \in 1..(2 * divisions) |->
        get_day_start_utc(n, 0) + ((i - 1) * (day_seconds \div divisions))]

\* C27: the queue setup computes at the instant now is the sequence of the
\* 96 boundaries of today and tomorrow that are strictly later than now;
\* it is not empty and its neighbours are 30 minutes apart.
C27_QueueIsFutureBoundaries ==
    [][(~timers /\ timers') =>
          /\ intervals' = SelectSeq(boundaries(now), LAMBDA t : t > now)
          /\ Len(intervals') > 0
          /\ \A i \in 1..(Len(intervals') - 1) :
                intervals'[i + 1] - intervals'[i] = day_seconds \div divisions
      ]_vars

(***************************************************************************)
(* Cancellation of a fetch cycle (specification SpecCancel)                *)
(***************************************************************************)
\* (mutant) the cancelled call has already stamped the data
cancelled_await_data_stamped(d, n) == [d EXCEPT !.last_updated = Dt(n)]

\* _data when CancelledError is raised at `await self.tasks['fetch']`
\* (epaapi.py line 339): every write to _data comes after that line.
cancelled_await_data(d, n) == d

\* The task running __fetch_data is cancelled in a back-off sleep or in the
\* GET: the handler of line 480 swallows the CancelledError and the task
\* returns None.
CancelFetch(p) ==
    /\ pc[p] = "fetching"
    /\ result' = [result EXCEPT ![p] = None]
    /\ pc' = [pc EXCEPT ![p] = "fetched"]
    /\ UNCHANGED <<now, apiVars, kind, last_attempt, ret, flag_set, notified,
                   wake, coordVars, fetchVars, cacheVars, collectorVars>>

\* The call awaiting the fetch task (line 339) is cancelled: CancelledError
\* is not an Exception, so the handlers of lines 399 and 314 let it pass;
\* the fetch task is cancelled with its awaiter and stays in the slot
\* (line 342 is not reached).
CancelAwait(p) ==
    /\ pc[p] \in {"fetching", "fetched"}
    /\ pc' = [pc EXCEPT ![p] = "done"]
    /\ ret' = [ret EXCEPT ![p] = "cancelled"]
    /\ result' = [result EXCEPT ![p] = None]
    /\ data' = cancelled_await_data(data, now)
    /\ UNCHANGED <<now, loaded_data, tasks_fetch, kind, last_attempt, flag_set,
                   notified, wake, coordVars, fetchVars, cacheVars,
                   collectorVars>>

NextCancel ==
    \/ Tick
    \/ \E p \in Procs :
        \/ Setup(p)
        \/ PeriodicCheck(p)
        \/ DeferredWake(p)
        \/ DirectCall(p)
        \/ HttpDataCallResume(p)
        \/ \E outcome \in FetchOutcomes : FetchTask(p, outcome)
        \/ \E started \in BOOLEAN : CancelPending(p, started)
        \/ CancelFetch(p)
        \/ CancelAwait(p)

SpecCancel == Init /\ [][NextCancel]_vars

\* this step cancels the call or the deferred task p
cancels(p) == ret[p] # "cancelled" /\ ret'[p] = "cancelled"

\* C28: a cancellation in the deferred wait, in a back-off sleep or in the
\* HTTP request leaves the in-memory data and the loaded flag as they were:
\* the cancelling step does, and so does the call that resumes with its
\* own cancelled fetch; the data changes only in the step in which a call
\* resumes with a completed fetch, and then holds that fetch's site
\* history and last_updated together.
C28_CancelLeavesDataWhole ==
    [][ /\ \A p \in Procs :
              (cancels(p) \/ (resumes(p) /\ tasks_fetch = p /\ result[p] = None)) =>
                  (data' = data /\ loaded_data' = loaded_data)
        /\ data' # data =>
              \E p \in Procs :
                  /\ resumes(p)
                  /\ http_data_call_ok
                  /\ data'.last_updated = Dt(now)
                  /\ data'.site # {}
      ]_vars

\* a call was cancelled while awaiting its fetch, and the fetch of another
\* call has completed
C28_Witness ==
    /\ data.last_updated # EpochZero
    /\ \E p \in Procs :
          kind[p] = "direct" /\ ret[p] = "cancelled" /\ pc[p] = "done"


\* ---------------------------------------------------------------------
\* The back-off of __fetch_data (SpecFetch)
\* ---------------------------------------------------------------------

\* the least of a non-empty set of numbers
least(S) == CHOOSE d \in S : \A e \in S : d <= e

\* the shortest sleep the code can choose after the n-th 429
min_delay(n) == least({backoff_delay(n, r) : r \in 0..(jitter_range - 1)})

\* C29: the back-off sleep begun after the n-th consecutive 429 of a fetch
\* (n = 1..9) lasts n * 15 + r seconds with 0 <= r < 15, so it lies in
\* [15n, 15n + 14]; the shortest possible sleeps of successive retries
\* grow by exactly 15 seconds.
C29_BackoffDelayBounds ==
    /\ fpc = "sleep" =>
          /\ counter \in 1..9
          /\ AllTryLater(answers) /\ Len(answers) = counter
          /\ \E r \in 0..14 : delay = (counter * 15) + r
          /\ delay >= 15 * counter /\ delay <= (15 * counter) + 14
    /\ \A n \in 1..9 : min_delay(n) = 15 * n
    /\ \A n \in 1..8 : min_delay(n + 1) - min_delay(n) = 15

C29_Witness ==
    /\ fpc = "sleep"
    /\ counter = 9
    /\ delay = 149

RECURSIVE total_delay(_, _)
\* the sleeps after the first n answers of 429, each with the random part r
total_delay(n, r) ==
    IF n = 0 THEN 0 ELSE backoff_delay(n, r) + total_delay(n - 1, r)

\* every request of the task so far was answered at once: all the time the
\* task has used was spent in back-off sleeps
prompt == elapsed = slept

\* C30: the longest the back-off sleeps of one __fetch_data call can add up
\* to (every answer 429, every random part 14) is below the 900 second
\* deadline, so a fetch that is answered 429 every time, at once, ends
\* after its 10th request with the retries exhausted and never with the
\* timeout.
C30_ExhaustionBeforeDeadline ==
    /\ total_delay(tries - 1, jitter_range - 1) < deadline
    /\ (prompt /\ fpc = "sleep") => elapsed + delay < deadline
    /\ ( /\ fpc = "returned" /\ cause # "error" /\ prompt
         /\ Len(answers) > 0 /\ AllTryLater(answers) )
       => /\ cause = "answer"
          /\ status = status_exhausted
          /\ fresult = None
          /\ gets = 10 /\ Len(answers) = 10 /\ sleeps = 9
          /\ slept < deadline

C30_Witness ==
    /\ fpc = "returned"
    /\ cause = "answer"
    /\ status = status_exhausted
    /\ prompt
    /\ gets = 10
    /\ slept = total_delay(9, 14)
    /\ slept = 801


\* the deadline expires in this step
times_out == cause # "timeout" /\ cause' = "timeout"

\* C31: the whole fetch, retries and back-off sleeps included, is bounded by
\* the one deadline of 900 seconds: the task is never suspended at or after
\* the deadline; when the deadline expires, in a GET, a sleep or a body
\* read, __fetch_data returns None (a failed fetch for its caller) without
\* another GET, and issues none afterwards.
C31_DeadlineBoundsFetch ==
    [][ /\ elapsed' <= deadline
        /\ fpc' \in {"get", "sleep", "body"} => elapsed' < deadline
        /\ times_out =>
              /\ fpc \in {"get", "sleep", "body"}
              /\ elapsed' = deadline
              /\ fpc' = "returned"
              /\ fresult' = None /\ ~is_parameters_list(fresult')
              /\ gets' = gets /\ answers' = answers
        /\ (cause = "timeout" /\ cause' = "timeout") => gets' = gets
      ]_vars

C31_Witness ==
    /\ fpc = "returned"
    /\ cause = "timeout"
    /\ status = 429
    /\ sleeps = Len(answers)
    /\ gets = sleeps
    /\ slept > total_delay(sleeps - 1, 0)
    /\ elapsed = deadline


\* json.dumps raises in this step of call p
dumps_raises(p) ==
    /\ spc[p] = "idle" /\ spc'[p] = "done"
    /\ may_save(loaded_data, arg'[p])

\* call p has the cache file open
has_file_open(p) == spc[p] \in {"opening", "writing"}

\* C32: __serialise_data has the whole record as one JSON string in memory
\* before it opens the cache file, and only that string is written; when
\* the conversion raises, the call returns False and the file is neither
\* opened nor emptied: it keeps the content it had.
C32_ConvertBeforeOpen ==
    [][ /\ \A p \in Procs :
              /\ dumps_raises(p) =>
                    /\ file' = file
                    /\ lock' = lock
                    /\ ~has_file_open(p)'
                    /\ sret'[p] = FALSE
              /\ has_file_open(p)' => payload'[p] = dumps(arg'[p])
        /\ file' # file =>
              \E p \in Procs :
                  /\ lock = p
                  /\ has_file_open(p)
                  /\ payload[p] = dumps(arg[p])
                  /\ file'.text \in {InitData, payload[p]}
      ]_vars

C32_Witness ==
    /\ file.state = "payload"
    /\ \E p \in Procs :
          /\ spc[p] = "done"
          /\ may_save(loaded_data, arg[p])
          /\ arg[p].last_updated = Dt(MaxNow)
          /\ payload[p] = InitData
          /\ file.text # dumps(arg[p])
          /\ sret[p] = FALSE


(***************************************************************************)
(* Unexpected series and the published observation (SpecCollector)         *)
(***************************************************************************)
\* the series the extraction has a case for
recognised(srs) == srs.name \in {"1HR_AV", "24HR_AV"}

\* the payload has a series list with a series the extraction has no case
\* for, and every series it has a case for carries a complete reading
has_unexpected_series(body) ==
    /\ body.kind = "object"
    /\ body.has_parameters
    /\ Len(body.parameters) > 0
    /\ body.parameters[1].has_series
    /\ \E i \in 1..Len(body.parameters[1].series) :
          ~recognised(body.parameters[1].series[i])
    /\ \A i \in 1..Len(body.parameters[1].series) :
          LET srs == body.parameters[1].series[i]
          IN  recognised(srs) =>
                (Len(srs.readings) > 0 /\ srs.readings[1].has = ReadingKeys)

\* the payload without the series the extraction has no case for
recognised_only(body) ==
    [body EXCEPT !.parameters =
        <<Parameter(TRUE, SelectSeq(body.parameters[1].series, recognised))>>]

\* C33: a payload with a series whose timeSeriesName is neither 1HR_AV nor
\* 24HR_AV, whatever the shape of that series' readings, is extracted as if
\* the series were not there: the extraction completes and publishes, the
\* attributes of the series it knows are set from them and the others keep
\* their values.
C33_UnexpectedSeriesTolerated ==
    [][\A a \in Answers :
          ( /\ cpc = "requested" /\ cpc' = "idle"
            /\ a = answer'
            /\ a.how = "json"
            /\ has_unexpected_series(a.body) )
          => LET x == extract_observation_data(recognised_only(a.body), cfields,
                                               observation_data, c_last_updated, now)
             IN  /\ ~x.raised
                 /\ cfields' = x.f
                 /\ observation_data' = x.od
                 /\ observation_data'.published
      ]_vars


(***************************************************************************)
(* The shared tasks['fetch'] slot (specification Spec)                     *)
(***************************************************************************)
\* C34: however concurrent calls of __http_data_call interleave, a call
\* that resumes from the await of its fetch task finds its own task in
\* tasks['fetch']: it reads that task's result and removes that task, never
\* another call's, and never finds a task that is still running or an
\* empty slot.
C34_OwnFetchResult ==
    [][\A p \in Procs :
          resumes(p) =>
            /\ tasks_fetch = p
            /\ slot_state = "done"
            /\ tasks_fetch' = NoTask
      ]_vars


(***************************************************************************)
(* Queue entries and scheduled fetches (specification SpecSchedule)        *)
(***************************************************************************)
\* the deferred task p fires in this step: its sleep is over and it goes on
\* to __quality_update
fires(p) ==
    /\ kind[p] = "scheduled"
    /\ pc[p] = "waiting" /\ pc'[p] # "waiting"
    /\ ret'[p] # "cancelled"

\* the entries of the queue
queued(q) == {q[i] : i \in 1..Len(q)}

\* C35: a scheduled fetch and the removal of a queue entry go together,
\* one for one: the deferred task that fires removes exactly the head, which
\* is the entry it was armed for, and runs its fetch cycle in the same step,
\* however that cycle ends; after setup nothing else changes the queue, so
\* the removed entry is gone and no later task is armed for it.
C35_OnePopPerFetch ==
    [][ /\ \A p \in Procs :
              fires(p) =>
                /\ Len(intervals) > 0
                /\ intervals[1] = wake[p]
                /\ intervals' = Tail(intervals)
                /\ queued(intervals') = queued(intervals) \ {wake[p]}
                /\ \A q \in Procs \ {p} : ~fires(q)
                /\ pc'[p] \in {"done", "fetching"}
        /\ (timers /\ intervals' # intervals) => \E p \in Procs : fires(p)
        /\ \A p \in Procs :
              (timers /\ arms(p)) =>
                \A q \in Procs :
                    (kind[q] = "scheduled" /\ pc[q] = "done" /\ ret[q] # "cancelled")
                        => wake[q] < wake'[p]
      ]_vars

\* two deferred tasks have fired, one after the other, for two entries
C35_Witness ==
    /\ timers
    /\ Len(intervals) > 0
    /\ \E p, q \in Procs :
          /\ kind[p] = "scheduled" /\ pc[p] = "done" /\ ret[p] = "TypeError"
          /\ kind[q] = "scheduled" /\ pc[q] = "done" /\ ret[q] = "TypeError"
          /\ wake[p] < wake[q]
          /\ wake[q] < intervals[1]


\* the deferred task p has ended, by whatever route
ended(p) == kind[p] = "scheduled" /\ pc[p] = "done"

\* C36: once the deferred task has ended, by completion, by an exception of
\* the fetch or by cancellation, tasks['pending_update'] no longer holds
\* it, so the next periodic check that finds the head due can arm a new
\* task.
C36_PendingSlotCleared ==
    \A p \in Procs : ended(p) => pending_update # p


\* the deferred task p is cancelled in its sleep in this step
cancelled_waiting(p) ==
    /\ kind[p] = "scheduled"
    /\ pc[p] = "waiting" /\ pc'[p] = "done"
    /\ ret'[p] = "cancelled"

\* C37: the cancellation of the deferred task during its wait leaves the
\* queue as it was, starts no fetch, does not set the data-changed flag and
\* notifies nobody; and the periodic check that follows, finding the slot
\* empty, arms a new task for the head the cancelled one was waiting for.
C37_CancelledWaitRearms ==
    [][ /\ \A p \in Procs :
              cancelled_waiting(p) =>
                /\ intervals' = intervals
                /\ tasks_fetch' = tasks_fetch
                /\ \A q \in Procs : pc'[q] # "fetching"
                /\ data_updated' = data_updated /\ ~data_updated'
                /\ flag_set' = flag_set /\ notified' = notified
                /\ listener_saw' = listener_saw
        /\ ( /\ checks
             /\ pending_update = NoTask
             /\ \E p \in Procs : pc[p] = "idle"
             /\ Len(intervals) > 0
             /\ \E q \in Procs :
                   ended(q) /\ ret[q] = "cancelled" /\ wake[q] = intervals[1] )
          => \E p \in Procs : arms(p) /\ wake'[p] = intervals[1]
      ]_vars


\* the payload carries a 1HR_AV reading with positive confidence and
\* sample count
positive_hour(body) ==
    /\ has_entry(body, "1HR_AV")
    /\ entry(body, "1HR_AV").confidence > 0
    /\ entry(body, "1HR_AV").totalSample > 0

\* C38: whatever extractions came before, a published observation whose
\* data_source is "24HR_AV" has the 24-hour values as its hourly pm25,
\* advice and index; and one whose data_source is "1HR_AV" has as pm25 the
\* averageValue of the latest 1HR_AV reading received with positive
\* confidence and sample count (the one of this payload, or else the one
\* kept from before).
C38_DataSourceConsistent ==
    [][ /\ ( /\ observation_data'.published
             /\ observation_data'.values.data_source = "24HR_AV" )
           => /\ observation_data'.values.pm25 = observation_data'.values.pm25_24h
              /\ observation_data'.values.aqi_pm25 = observation_data'.values.aqi_pm25_24h
              /\ observation_data'.values.aqi = observation_data'.values.aqi_24h
        /\ \A a \in Answers :
              ( /\ cpc = "requested" /\ cpc' = "idle"
                /\ a = answer'
                /\ a.how = "json"
                /\ observation_data'.published
                /\ observation_data'.values.data_source = "1HR_AV" )
              => IF positive_hour(a.body)
                   THEN observation_data'.values.pm25
                            = entry(a.body, "1HR_AV").averageValue
                   ELSE /\ cfields.data_source_1h = "1HR_AV"
                        /\ observation_data'.values.pm25 = cfields.pm25
      ]_vars


\* C39: the published observation is either empty or holds all twelve
\* values, those the attributes had at the end of one completed extraction;
\* and last_updated moves only in a step that publishes such an
\* observation, whatever the payload, a first payload with only one of the
\* two series included.
C39_PublishedWholeOrEmpty ==
    [][ /\ \/ observation_data' = NoObservation
           \/ /\ observation_data'.published
              /\ DOMAIN observation_data'.values = SensorKeys
              /\ observation_data'.values = published_values(cfields')
              /\ observation_data'.values.aqi_pm25_24h # Unset
        /\ c_last_updated' # c_last_updated =>
              /\ cpc = "requested" /\ cpc' = "idle"
              /\ observation_data'.published
              /\ c_last_updated' = Dt(now)
      ]_vars

====
